---- MODULE Spec2Model ----
(***************************************************************************)
(* Model of the jump redirection service: the /search resolver, the        *)
(* in-memory index, the Redis store, the homepage/bookmark reloaders, the   *)
(* bootstrap sync and the garbage collector.                                *)
(*                                                                          *)
(* Strings of the program are TLA+ strings in the state; the table Chars    *)
(* gives each string of the universe as its sequence of characters, and     *)
(* the string functions of the code work on those sequences.  Scores are    *)
(* the float scores of the code multiplied by 1000.  Times are in days;     *)
(* 0 is Go's zero time.Time.                                                *)
(***************************************************************************)
EXTENDS Integers, Sequences, FiniteSets, TLC

\* ------------------------------------------------------------------------
\* Bounds of the model
\* ------------------------------------------------------------------------
MaxAdvance == 1
MaxRequests == 1

\* ------------------------------------------------------------------------
\* Strings
\* ------------------------------------------------------------------------
Chars ==
  [s \in {"", "jel", "Jel ", "Jel", "jel.ex", "zzz", "@chat", "@", "/inf", "/",
          "/Inf", "/inf ", "/zzz", "/infrax", "/h", "/re",
          "jel.ex.io", "jelly.ex.io", "jel.bad.io",
          "chat", "Docs", "talk", "/infra", "/healthz", "/readyz",
          "ex.io", "jump.ex.io", "jelly", "chat.ai", "docs.ex.io", "home.ex.io",
          "not-a-valid-url"} |->
     CASE s = "" -> << >>
       [] s = "jel" -> <<"j","e","l">>
       [] s = "Jel " -> <<"J","e","l"," ">>
       [] s = "Jel" -> <<"J","e","l">>
       [] s = "jel.ex" -> <<"j","e","l",".","e","x">>
       [] s = "zzz" -> <<"z","z","z">>
       [] s = "@chat" -> <<"@","c","h","a","t">>
       [] s = "@" -> <<"@">>
       [] s = "/inf" -> <<"/","i","n","f">>
       [] s = "/" -> <<"/">>
       [] s = "/Inf" -> <<"/","I","n","f">>
       [] s = "/inf " -> <<"/","i","n","f"," ">>
       [] s = "/zzz" -> <<"/","z","z","z">>
       [] s = "/infrax" -> <<"/","i","n","f","r","a","x">>
       [] s = "/h" -> <<"/","h">>
       [] s = "/re" -> <<"/","r","e">>
       [] s = "jel.ex.io" -> <<"j","e","l",".","e","x",".","i","o">>
       [] s = "jelly.ex.io" -> <<"j","e","l","l","y",".","e","x",".","i","o">>
       [] s = "jel.bad.io" -> <<"j","e","l",".","b","a","d",".","i","o">>
       [] s = "chat" -> <<"c","h","a","t">>
       [] s = "Docs" -> <<"D","o","c","s">>
       [] s = "talk" -> <<"t","a","l","k">>
       [] s = "/infra" -> <<"/","i","n","f","r","a">>
       [] s = "/healthz" -> <<"/","h","e","a","l","t","h","z">>
       [] s = "/readyz" -> <<"/","r","e","a","d","y","z">>
       [] s = "ex.io" -> <<"e","x",".","i","o">>
       [] s = "jump.ex.io" -> <<"j","u","m","p",".","e","x",".","i","o">>
       [] s = "jelly" -> <<"j","e","l","l","y">>
       [] s = "chat.ai" -> <<"c","h","a","t",".","a","i">>
       [] s = "docs.ex.io" -> <<"d","o","c","s",".","e","x",".","i","o">>
       [] s = "home.ex.io" -> <<"h","o","m","e",".","e","x",".","i","o">>
       [] s = "not-a-valid-url" ->
            <<"n","o","t","-","a","-","v","a","l","i","d","-","u","r","l">>]

\* The string of the universe that has the characters cs.
Str(cs) == CHOOSE s \in DOMAIN Chars : Chars[s] = cs

LowerOf == [c \in {"J", "D", "I"} |-> CASE c = "J" -> "j" [] c = "D" -> "d" [] c = "I" -> "i"]

ToLowerChar(c) == IF c \in DOMAIN LowerOf THEN LowerOf[c] ELSE c

ToLower(cs) == [i \in 1..Len(cs) |-> ToLowerChar(cs[i])]

IsLetterOrDigit(c) == c \notin {" ", ".", "@", "/", "-"}

RECURSIVE TrimLeft(_)
TrimLeft(cs) == IF cs # << >> /\ Head(cs) = " " THEN TrimLeft(Tail(cs)) ELSE cs

RECURSIVE TrimRight(_)
TrimRight(cs) ==
  IF cs # << >> /\ cs[Len(cs)] = " " THEN TrimRight(SubSeq(cs, 1, Len(cs) - 1)) ELSE cs

TrimSpace(cs) == TrimRight(TrimLeft(cs))

HasPrefix(cs, p) == Len(p) <= Len(cs) /\ SubSeq(cs, 1, Len(p)) = p

TrimPrefix(cs, p) == IF HasPrefix(cs, p) THEN SubSeq(cs, Len(p) + 1, Len(cs)) ELSE cs

HasSuffix(cs, p) == Len(p) <= Len(cs) /\ SubSeq(cs, Len(cs) - Len(p) + 1, Len(cs)) = p

\* strings.Index: 0-based position of the first occurrence, -1 if none.
StrIndex(cs, p) ==
  LET hits == {i \in 0..(Len(cs) - Len(p)) : SubSeq(cs, i + 1, i + Len(p)) = p}
  IN IF hits = {} THEN -1 ELSE CHOOSE i \in hits : \A j \in hits : i <= j

Contains(cs, p) == StrIndex(cs, p) >= 0

\* strings.Split(cs, sep) for a one-character separator.
RECURSIVE SplitAcc(_, _, _)
SplitAcc(cs, sep, cur) ==
  IF cs = << >> THEN <<cur>>
  ELSE IF Head(cs) = sep THEN <<cur>> \o SplitAcc(Tail(cs), sep, << >>)
  ELSE SplitAcc(Tail(cs), sep, Append(cur, Head(cs)))

Split(cs, sep) == SplitAcc(cs, sep, << >>)

\* ------------------------------------------------------------------------
\* Query parser
\* ------------------------------------------------------------------------
RECURSIVE splitAndCleanParts(_)
splitAndCleanParts(parts) ==
  IF parts = << >> THEN << >>
  ELSE LET part == TrimSpace(Head(parts))
       IN (IF part # << >> THEN <<part>> ELSE << >>) \o splitAndCleanParts(Tail(parts))

splitAndClean(cs, sep) == splitAndCleanParts(Split(cs, sep))

RECURSIVE SubdomainParts(_)
SubdomainParts(dotParts) ==
  IF dotParts = << >> THEN << >>
  ELSE (IF Head(dotParts) = << >> THEN << >> ELSE splitAndClean(Head(dotParts), " "))
       \o SubdomainParts(Tail(dotParts))

ParseQuery(inputCs) ==
  LET input == TrimSpace(ToLower(inputCs))
      hasDot == Contains(input, <<".">>)
      dotParts == Split(input, ".")
      top == IF dotParts[1] # << >> THEN splitAndClean(dotParts[1], " ") ELSE << >>
      sub == SubdomainParts(Tail(dotParts))
  IN IF input = << >>
     THEN [Raw |-> input, Fragments |-> << >>, HasDot |-> FALSE,
           TopLevelFragments |-> << >>, SubdomainFragments |-> << >>]
     ELSE IF ~hasDot
     THEN [Raw |-> input, Fragments |-> splitAndClean(input, " "), HasDot |-> FALSE,
           TopLevelFragments |-> splitAndClean(input, " "), SubdomainFragments |-> << >>]
     ELSE [Raw |-> input, Fragments |-> top \o sub, HasDot |-> TRUE,
           TopLevelFragments |-> top, SubdomainFragments |-> sub]

HostnameFragments(hostCs) == Split(ToLower(hostCs), ".")

normalizeFragment(cs) == ToLower(SelectSeq(cs, IsLetterOrDigit))

\* ------------------------------------------------------------------------
\* Scorer (scores are the code's float scores times 1000)
\* ------------------------------------------------------------------------
ScoreExactMatch == 100000
ScorePrefixMatch == 75000
ScoreSubstringMatch == 50000
ScoreFuzzyMatch == 25000
ScorePositionBonus == 10000
ScoreLengthBonus == 5000
ScoreExactHostnameBonus == 200000

\* ScorePositionBonus * exp(-0.3 * position)
\* a variant with a bonus three times as steep
calculatePositionBonusSteep(position) ==
  CASE position = 0 -> 30000
    [] position = 1 -> 12197
    [] position = 2 -> 4959
    [] position = 3 -> 2016
    [] OTHER -> 820

\* ScorePositionBonus * math.Exp(-position * 0.3), in thousandths
calculatePositionBonus(position) ==
  CASE position = 0 -> 10000
    [] position = 1 -> 7408
    [] position = 2 -> 5488
    [] position = 3 -> 4066
    [] OTHER -> 3012

\* Number of characters of s1 that occur in s2; the similarity is this
\* number divided by Len(s1).
SimilarityMatches(s1, s2) ==
  Cardinality({i \in 1..Len(s1) : \E k \in 1..Len(s2) : s2[k] = s1[i]})

scoreFragment(queryFrag0, hostFrag0, position) ==
  LET queryFrag == normalizeFragment(queryFrag0)
      hostFrag == normalizeFragment(hostFrag0)
      matches == SimilarityMatches(queryFrag, hostFrag)
  IN IF queryFrag = << >> \/ hostFrag = << >> THEN 0
     ELSE IF queryFrag = hostFrag THEN ScoreExactMatch + calculatePositionBonus(position)
     ELSE IF HasPrefix(hostFrag, queryFrag)
     THEN ScorePrefixMatch + calculatePositionBonus(position)
     ELSE IF Contains(hostFrag, queryFrag)
     THEN ScoreSubstringMatch
          + (ScorePositionBonus
             - (ScorePositionBonus * StrIndex(hostFrag, queryFrag)) \div Len(hostFrag))
     ELSE IF 2 * matches > Len(queryFrag)
     THEN (ScoreFuzzyMatch * matches) \div Len(queryFrag)
     ELSE 0

RECURSIVE SumSeq(_)
SumSeq(xs) == IF xs = << >> THEN 0 ELSE Head(xs) + SumSeq(Tail(xs))

MaxOf(S) == IF S = {} THEN 0 ELSE CHOOSE x \in S : \A y \in S : y <= x

scoreTopLevelOnly(queryFragments, hostFragments) ==
  IF queryFragments = << >> \/ hostFragments = << >> THEN 0
  ELSE LET topLevel == hostFragments[1]
           total == SumSeq([i \in 1..Len(queryFragments) |->
                              scoreFragment(queryFragments[i], topLevel, 0)])
       IN IF Len(queryFragments) = 1 /\ queryFragments[1] = topLevel
          THEN ScoreExactMatch + ScoreExactHostnameBonus
          ELSE IF total > 0 /\ Len(topLevel) < 10 THEN total + ScoreLengthBonus
          ELSE total

\* a variant that returns the top-level score when no subdomain fragment
\* matches
scoreWithSubdomainsLoose(query, hostFragments) ==
  IF query.Fragments = << >> \/ hostFragments = << >> THEN 0
  ELSE IF query.SubdomainFragments = << >> THEN 0
  ELSE IF Len(hostFragments) < 2 THEN 0
  ELSE LET topScore ==
             SumSeq([i \in 1..Len(query.TopLevelFragments) |->
                       scoreFragment(query.TopLevelFragments[i], hostFragments[1], 0)])
           subdomains == Tail(hostFragments)
           subdomainScore ==
             SumSeq([i \in 1..Len(query.SubdomainFragments) |->
                       MaxOf({scoreFragment(query.SubdomainFragments[i], subdomains[k], k - 1) :
                                k \in 1..Len(subdomains)})])
       IN topScore + subdomainScore

scoreWithSubdomains(query, hostFragments) ==
  IF query.Fragments = << >> \/ hostFragments = << >> THEN 0
  ELSE IF query.SubdomainFragments = << >> THEN 0
  ELSE IF Len(hostFragments) < 2 THEN 0
  ELSE LET topScore ==
             SumSeq([i \in 1..Len(query.TopLevelFragments) |->
                       scoreFragment(query.TopLevelFragments[i], hostFragments[1], 0)])
           subdomains == Tail(hostFragments)
           subdomainScore ==
             SumSeq([i \in 1..Len(query.SubdomainFragments) |->
                       MaxOf({scoreFragment(query.SubdomainFragments[i], subdomains[k], k - 1) :
                                k \in 1..Len(subdomains)})])
       IN IF subdomainScore = 0 THEN 0 ELSE topScore + subdomainScore

Score(query, service) ==
  LET hostFragments == HostnameFragments(Chars[service.Hostname])
  IN IF ~query.HasDot THEN scoreTopLevelOnly(query.Fragments, hostFragments)
     ELSE scoreWithSubdomains(query, hostFragments)

\* log10(counter + 1) * ScoreUsageWeight * 100
\* a variant without usage learning
UsageScoreNone(counter) == 0

\* math.Log10(counter + 1) * ScoreUsageWeight * 100, in thousandths
UsageScore(counter) ==
  CASE counter <= 0 -> 0
    [] counter = 1 -> 3010
    [] counter = 2 -> 4771
    [] counter = 3 -> 6021
    [] counter = 4 -> 6990
    [] OTHER -> 7782

RECURSIVE BubblePass(_, _, _)
BubblePass(c, j, last) ==
  IF j > last THEN c
  ELSE BubblePass(IF c[j].TotalScore < c[j + 1].TotalScore
                  THEN [c EXCEPT ![j] = c[j + 1], ![j + 1] = c[j]]
                  ELSE c,
                  j + 1, last)

RECURSIVE BubbleSort(_, _)
BubbleSort(c, i) ==
  IF i > Len(c) - 2 THEN c ELSE BubbleSort(BubblePass(c, 1, Len(c) - i - 1), i + 1)

\* a variant that sorts by total score, ascending
sortCandidatesAscending(candidates) ==
  [i \in 1..Len(candidates) |-> BubbleSort(candidates, 0)[Len(candidates) + 1 - i]]

sortCandidates(candidates) == BubbleSort(candidates, 0)

\* Bookmark scoring
Fields(cs) == splitAndClean(cs, " ")

ScoreBookmark(queryStr, bookmark) ==
  LET q == ToLower(TrimSpace(queryStr))
      abbr == ToLower(Chars[bookmark.Abbr])
      queryWords == Fields(q)
      matches == SimilarityMatches(q, abbr)
  IN IF queryStr = << >> THEN 0
     ELSE IF q = abbr THEN ScoreExactMatch + ScoreExactHostnameBonus
     ELSE IF HasPrefix(abbr, q) THEN ScorePrefixMatch
     ELSE IF Contains(abbr, q)
     THEN ScoreSubstringMatch
          + (ScorePositionBonus - (ScorePositionBonus * StrIndex(abbr, q)) \div Len(abbr))
     ELSE IF Len(queryWords) > 1 /\ \A i \in 1..Len(queryWords) : Contains(abbr, queryWords[i])
     THEN ScoreFuzzyMatch
     ELSE IF q # << >> /\ 2 * matches > Len(q) THEN (ScoreFuzzyMatch * matches) \div Len(q)
     ELSE 0

\* ------------------------------------------------------------------------
\* Configuration
\* ------------------------------------------------------------------------
AllowedHosts == <<"jump.ex.io">>

HomepageURL == [host |-> "home.ex.io", path |-> "/"]

\* Days.
DefaultGCThreshold == 30
ReloadInterval == 1
GCInterval == 1

\* strings.LastIndex for a single character, 0-based, -1 if none.
LastIndexChar(cs, c) ==
  LET hits == {i \in 0..(Len(cs) - 1) : cs[i + 1] = c}
  IN IF hits = {} THEN -1 ELSE CHOOSE i \in hits : \A j \in hits : j <= i

RECURSIVE Join(_, _)
Join(parts, sep) ==
  IF parts = << >> THEN << >>
  ELSE IF Len(parts) = 1 THEN parts[1]
  ELSE parts[1] \o <<sep>> \o Join(Tail(parts), sep)

AppendNew(seq, x) == IF \E i \in 1..Len(seq) : seq[i] = x THEN seq ELSE Append(seq, x)

RECURSIVE extractDomainsFrom(_, _)
extractDomainsFrom(hosts, domains) ==
  IF hosts = << >> THEN domains
  ELSE LET host == Chars[Head(hosts)]
           idx == LastIndexChar(host, ":")
           hostWithoutPort ==
             IF idx # -1 /\ ~Contains(SubSeq(host, 1, idx), <<"]", ":">>)
             THEN SubSeq(host, 1, idx) ELSE host
           parts == Split(hostWithoutPort, ".")
           withHost == AppendNew(domains, hostWithoutPort)
           withSuffix == IF Len(parts) >= 2
                         THEN AppendNew(withHost, Join(Tail(parts), "."))
                         ELSE withHost
       IN extractDomainsFrom(Tail(hosts), withSuffix)

extractDomains(hosts) == extractDomainsFrom(hosts, << >>)

AllowedDomains == extractDomains(AllowedHosts)

isAllowedRedirect(hostname, allowedDomains) ==
  \E i \in 1..Len(allowedDomains) :
     LET h == ToLower(Chars[hostname])
         d == ToLower(allowedDomains[i])
     IN h = d \/ HasSuffix(h, <<".">> \o d)

\* mw.EnforceHost: the Host headers that reach the handler.
matchHost(host, pattern) ==
  \/ Chars[host] = Chars[pattern]
  \/ /\ HasPrefix(Chars[pattern], <<"*", ".">>)
     /\ HasSuffix(Chars[host], Tail(Chars[pattern]))

RequestHosts == {h \in {"jump.ex.io"} : \E i \in 1..Len(AllowedHosts) : matchHost(h, AllowedHosts[i])}

\* ------------------------------------------------------------------------
\* Universe of the catalog files and of the requests
\* ------------------------------------------------------------------------
Hosts == {"jel.ex.io", "jelly.ex.io", "jel.bad.io"}

\* href entries of services.yaml, by the hostname url.Parse finds in them;
\* "" is an entry without href, "not-a-valid-url" one without hostname.
ServiceHrefs == Hosts \cup {"", "not-a-valid-url"}

HrefHostname(href) == IF href \in Hosts THEN href ELSE ""

\* entries of bookmarks.yaml
BookmarkEntries ==
  {[Abbr |-> "chat", Href |-> [host |-> "chat.ai", path |-> "/"]],
   [Abbr |-> "Docs", Href |-> [host |-> "docs.ex.io", path |-> "/"]]}

\* the same file after the abbr of the first bookmark was edited
RelabelledEntries ==
  {[Abbr |-> "talk", Href |-> [host |-> "chat.ai", path |-> "/"]],
   [Abbr |-> "Docs", Href |-> [host |-> "docs.ex.io", path |-> "/"]]}

\* first 16 hex characters of the SHA-256 of the URL
generateBookmarkID(url) ==
  CASE url.host = "chat.ai" -> "5f2a9c01d3e4b7a8"
    [] url.host = "docs.ex.io" -> "c41d77e0a92b6f35"
    [] OTHER -> "0000000000000000"

Queries == {"", "Jel ", "zzz", "@chat", "@", "/inf", "/"}

\* values of q of the internal realm: a prefix of one admin path, of all
\* of them, of none, a whole path, and a path with a character more
InternalQueries == {"/inf", "/", "/Inf", "/inf ", "/zzz", "/infra", "/infrax", "/h", "/re"}

\* ------------------------------------------------------------------------
\* Tables of the pure functions over the universe, computed once
\* ------------------------------------------------------------------------
\* strings.TrimSpace(r.URL.Query().Get("q"))
TrimmedQuery == [q \in Queries \cup InternalQueries |-> Str(TrimSpace(Chars[q]))]

QueryKeys == {TrimmedQuery[q] : q \in Queries \cup InternalQueries}

ParsedQuery == [query \in QueryKeys |-> ParseQuery(Chars[query])]

LexicalScore ==
  [query \in QueryKeys |-> [h \in Hosts |-> Score(ParsedQuery[query], [Hostname |-> h])]]

AllowedRedirect == [h \in Hosts |-> isAllowedRedirect(h, AllowedDomains)]

\* strings.TrimSpace(strings.TrimPrefix(query, "@"))
BookmarkQueryStr ==
  [query \in {k \in QueryKeys : HasPrefix(Chars[k], <<"@">>)} |->
     Str(TrimSpace(TrimPrefix(Chars[query], <<"@">>)))]

BookmarkScore ==
  [queryStr \in {BookmarkQueryStr[k] : k \in DOMAIN BookmarkQueryStr} |->
     [abbr \in {e.Abbr : e \in BookmarkEntries \cup RelabelledEntries} |->
        ScoreBookmark(Chars[queryStr], [Abbr |-> abbr])]]

\* ------------------------------------------------------------------------
\* Ranking.  query is the trimmed query string; its parse and the lexical
\* scores are read from the tables above.
\* ------------------------------------------------------------------------
Candidate(service, lexical, usage) ==
  [Service |-> service, LexicalScore |-> lexical, UsageScore |-> usage,
   TotalScore |-> lexical + usage]

ServiceCandidate(query, service) ==
  Candidate(service, LexicalScore[query][service.Hostname], UsageScore(service.Counter))

\* a variant of the filter that keeps disabled services
IsServiceCandidateAny(query, service) == LexicalScore[query][service.Hostname] # 0

IsServiceCandidate(query, service) ==
  ~service.Disabled /\ LexicalScore[query][service.Hostname] # 0

scoreCandidates(query, kept) ==
  sortCandidates([i \in 1..Len(kept) |-> ServiceCandidate(query, kept[i])])

RankCandidates(query, services) ==
  scoreCandidates(query, SelectSeq(services, LAMBDA svc : IsServiceCandidate(query, svc)))

IsBookmarkCandidate(queryStr, bookmark) ==
  ~bookmark.Disabled /\ BookmarkScore[queryStr][bookmark.Abbr] # 0

scoreBookmarkCandidates(queryStr, kept) ==
  sortCandidates([i \in 1..Len(kept) |->
                    [Bookmark |-> kept[i],
                     TotalScore |-> BookmarkScore[queryStr][kept[i].Abbr]]])

RankBookmarkCandidates(queryStr, bookmarks) ==
  scoreBookmarkCandidates(queryStr,
                          SelectSeq(bookmarks, LAMBDA bm : IsBookmarkCandidate(queryStr, bm)))

\* ------------------------------------------------------------------------
\* State
\* ------------------------------------------------------------------------
VARIABLES
  phase,      \* position of the process in App.New / App.Run
  cfg,        \* configuration read at start
  now,        \* wall clock, in days
  advances,   \* number of clock advances so far
  idx,        \* MemoryIndex: services and bookmarks maps
  redis,      \* the Redis store: service records, id sets, cache keys
  requests,   \* number of /search requests served so far
  last,       \* what the last operation did and answered
  ticked,     \* the periodic loops that have ticked in the current day
  mem,        \* sync.RWMutex of the index and the calls in progress on it
  trig,       \* the manual trigger channels and the POST /reload requests
  shut,       \* App.Run from the start of the server to its return
  gc,         \* the pass of the collector in progress
  upd         \* the UpdateServiceCounter calls in progress

vars ==
  <<phase, cfg, now, advances, idx, redis, requests, last, ticked, mem, trig, shut, gc, upd>>

MapPut(f, k, v) == [x \in (DOMAIN f) \cup {k} |-> IF x = k THEN v ELSE f[x]]

MapDel(f, k) == [x \in (DOMAIN f) \ {k} |-> f[x]]

EmptyMap == [x \in {} |-> 0]

Perms(S) == {f \in [1..Cardinality(S) -> S] : \A i, j \in 1..Cardinality(S) : f[i] = f[j] => i = j}

\* A fixed listing of a set, for the loops whose order does not matter.
RECURSIVE SetToSeq(_)
SetToSeq(S) == IF S = {} THEN << >> ELSE LET x == CHOOSE x \in S : TRUE IN <<x>> \o SetToSeq(S \ {x})

ListIDs(list) == {list[i].ID : i \in 1..Len(list)}

\* the map a loop "m[e.ID] = e" over list builds: the last entry of an id wins
MapOfList(list) ==
  [id \in ListIDs(list) |->
     list[CHOOSE i \in 1..Len(list) :
            list[i].ID = id /\ \A j \in 1..Len(list) : list[j].ID = id => j <= i]]

\* ------------------------------------------------------------------------
\* Memory index
\* ------------------------------------------------------------------------
NewMemoryIndex == [services |-> EmptyMap, bookmarks |-> EmptyMap]

UpdateServices(ix, services) == [ix EXCEPT !.services = MapOfList(services)]

UpdateBookmarks(ix, bookmarks) == [ix EXCEPT !.bookmarks = MapOfList(bookmarks)]

\* order: the iteration order of the Go map
GetAllServices(ix, order) == [i \in 1..Len(order) |-> ix.services[order[i]]]

GetAllBookmarks(ix, order) == [i \in 1..Len(order) |-> ix.bookmarks[order[i]]]

\* a variant that leaves the entry in the map
DeleteServiceKept(ix, id) == ix

DeleteService(ix, id) == [ix EXCEPT !.services = MapDel(@, id)]

DeleteBookmark(ix, id) == [ix EXCEPT !.bookmarks = MapDel(@, id)]

\* a variant that increments the zero value of a missing entry
IncrementCounterCreating(ix, id) ==
  IF id \in DOMAIN ix.services
  THEN [ix EXCEPT !.services[id].Counter = @ + 1]
  ELSE [ix EXCEPT !.services = MapPut(@, id, [ID |-> "", Hostname |-> "", Name |-> "",
                                               Sources |-> << >>, Counter |-> 1,
                                               UpdatedAt |-> 0, Disabled |-> FALSE])]

IncrementCounter(ix, id) ==
  IF id \in DOMAIN ix.services
  THEN [ix EXCEPT !.services[id].Counter = @ + 1]
  ELSE ix

\* ------------------------------------------------------------------------
\* Redis store.  fail tells where the call fails: "none", or the command
\* of the call that returns an error (the commands before it are applied).
\* ------------------------------------------------------------------------
\* json.Marshal / json.Unmarshal of a domain.Service (no field tags)
MarshalService(svc) ==
  [ID |-> svc.ID, Hostname |-> svc.Hostname, Name |-> svc.Name, Sources |-> svc.Sources,
   Counter |-> svc.Counter, UpdatedAt |-> svc.UpdatedAt, Disabled |-> svc.Disabled]

UnmarshalService(data) ==
  [ID |-> data.ID, Hostname |-> data.Hostname, Name |-> data.Name, Sources |-> data.Sources,
   Counter |-> data.Counter, UpdatedAt |-> data.UpdatedAt, Disabled |-> data.Disabled]

NewRedis(cache) ==
  [svc |-> EmptyMap, all |-> {}, bm |-> EmptyMap, bmAll |-> {}, cache |-> cache]

CacheResolution(st, query, hostname, fail) ==
  IF fail # "none" THEN st ELSE [st EXCEPT !.cache = MapPut(@, query, hostname)]

\* "" is a miss or an error
GetCachedResolution(st, query, fail) ==
  IF fail # "none" \/ query \notin DOMAIN st.cache THEN "" ELSE st.cache[query]

InvalidateCache(st, query, fail) ==
  IF fail # "none" THEN st ELSE [st EXCEPT !.cache = MapDel(@, query)]

SaveService(st, service, fail) ==
  CASE fail = "set" -> st
    [] fail = "sadd" -> [st EXCEPT !.svc = MapPut(@, service.ID, MarshalService(service))]
    [] OTHER -> [st EXCEPT !.svc = MapPut(@, service.ID, MarshalService(service)),
                           !.all = @ \cup {service.ID}]

StoreDeleteService(st, id, fail) ==
  CASE fail = "del" -> st
    [] fail = "srem" -> [st EXCEPT !.svc = MapDel(@, id)]
    [] OTHER -> [st EXCEPT !.svc = MapDel(@, id), !.all = @ \ {id}]

StoreDeleteBookmark(st, id, fail) ==
  CASE fail = "del" -> st
    [] fail = "srem" -> [st EXCEPT !.bm = MapDel(@, id)]
    [] OTHER -> [st EXCEPT !.bm = MapDel(@, id), !.bmAll = @ \ {id}]

\* the services of the ids of the set whose record can be read
StoreGetAllServices(st) ==
  LET ids == SetToSeq(st.all \cap DOMAIN st.svc)
  IN [i \in 1..Len(ids) |-> UnmarshalService(st.svc[ids[i]])]

UpdateServiceCounter(st, id, fail) ==
  IF fail = "get" \/ id \notin DOMAIN st.svc THEN st
  ELSE SaveService(st, [UnmarshalService(st.svc[id]) EXCEPT !.Counter = @ + 1], fail)

IncrementUsage(st, serviceID, fail) == UpdateServiceCounter(st, serviceID, fail)

\* the pipeline is sent as one request: it is applied or it is not
SaveServicesMany(st, services, fail) ==
  IF fail # "none" THEN st
  ELSE [st EXCEPT !.svc = [id \in (DOMAIN @) \cup ListIDs(services) |->
                             IF id \in ListIDs(services)
                             THEN MarshalService(MapOfList(services)[id]) ELSE @[id]],
                  !.all = @ \cup ListIDs(services)]

SaveBookmarksMany(st, bookmarks, fail) ==
  IF fail # "none" THEN st
  ELSE [st EXCEPT !.bm = [id \in (DOMAIN @) \cup ListIDs(bookmarks) |->
                            IF id \in ListIDs(bookmarks)
                            THEN MapOfList(bookmarks)[id] ELSE @[id]],
                  !.bmAll = @ \cup ListIDs(bookmarks)]

\* ------------------------------------------------------------------------
\* Resolver: GET /search
\* A request context carries the index and the store as the handler leaves
\* them, the responses written to the ResponseWriter, the probes made and
\* the counters incremented.
\* ------------------------------------------------------------------------
StatusFound == 302

ServiceURL(hostname) == [host |-> hostname, path |-> ""]

InternalURL(reqHost, endpoint) == [host |-> reqHost, path |-> endpoint]

NewContext(ix, st) ==
  [idx |-> ix, redis |-> st, responses |-> << >>, probed |-> << >>,
   incIdx |-> << >>, incStore |-> << >>, ranked |-> << >>, events |-> << >>,
   counted |-> << >>]

\* the handler makes the call: events keeps the calls in program order
Called(ctx, call) == [ctx EXCEPT !.events = Append(@, call)]

\* http.Redirect writes the status line, the Location header and the body
Redirect(ctx, url) ==
  [Called(ctx, "Redirect") EXCEPT
     !.responses = Append(@, [status |-> StatusFound, location |-> url])]

\* store.IncrementUsage, then memIndex.IncrementCounter
CountUsage(ctx, hostname, failIncr) ==
  LET st == IncrementUsage(ctx.redis, hostname, failIncr)
      ix == IncrementCounter(ctx.idx, hostname)
  IN [Called(Called(ctx, "IncrementUsage"), "IncrementCounter") EXCEPT
                 !.redis = st, !.idx = ix, !.counted = Append(@, hostname),
                 !.incStore = IF st.svc # ctx.redis.svc THEN Append(@, hostname) ELSE @,
                 !.incIdx = IF ix # ctx.idx THEN Append(@, hostname) ELSE @]

InternalEndpoints == <<"/infra", "/healthz", "/readyz">>

\* a variant that returns the first of several matches
matchInternalEndpointFirst(query) ==
  LET matches == SelectSeq(InternalEndpoints,
                           LAMBDA endpoint : HasPrefix(Chars[endpoint], ToLower(query)))
  IN IF Len(matches) >= 1 THEN matches[1] ELSE ""

matchInternalEndpoint(query) ==
  LET matches == SelectSeq(InternalEndpoints,
                           LAMBDA endpoint : HasPrefix(Chars[endpoint], ToLower(query)))
  IN IF Len(matches) = 1 THEN matches[1] ELSE ""

\* ValidateTLS(hostname) was called
Probe(ctx, hostname) == [ctx EXCEPT !.probed = Append(@, hostname)]

\* a variant that answers home when the probe of the cached hostname fails
serveCachedHome(ctx, query, in, cachedHostname) ==
  IF ~in.probeCached
  THEN [handled |-> TRUE,
        ctx |-> Redirect([Called(Probe(ctx, cachedHostname), "InvalidateCache") EXCEPT
                            !.redis = InvalidateCache(@, query, in.failInv)],
                         HomepageURL)]
  ELSE IF ~AllowedRedirect[cachedHostname]
  THEN [handled |-> TRUE,
        ctx |-> Redirect(CountUsage(Probe(ctx, cachedHostname), cachedHostname, in.failIncr),
                         HomepageURL)]
  ELSE [handled |-> TRUE,
        ctx |-> Redirect(CountUsage(Probe(ctx, cachedHostname), cachedHostname, in.failIncr),
                         ServiceURL(cachedHostname))]

\* the tail of handleCachedService once the cache returned a hostname.
\* in.probeCached: the outcome of ValidateTLS; in.failIncr, in.failInv
serveCached(ctx, query, in, cachedHostname) ==
  IF ~in.probeCached
  THEN [handled |-> FALSE,
        ctx |-> [Called(Probe(ctx, cachedHostname), "InvalidateCache") EXCEPT
                   !.redis = InvalidateCache(@, query, in.failInv)]]
  ELSE IF ~AllowedRedirect[cachedHostname]
  THEN [handled |-> TRUE,
        ctx |-> Redirect(CountUsage(Probe(ctx, cachedHostname), cachedHostname, in.failIncr),
                         HomepageURL)]
  ELSE [handled |-> TRUE,
        ctx |-> Redirect(CountUsage(Probe(ctx, cachedHostname), cachedHostname, in.failIncr),
                         ServiceURL(cachedHostname))]

\* a variant that answers home when the cache read fails
handleCachedServiceStrict(ctx, query, in) ==
  IF in.failGet # "none" THEN [handled |-> TRUE, ctx |-> Redirect(ctx, HomepageURL)]
  ELSE IF GetCachedResolution(ctx.redis, query, in.failGet) = ""
  THEN [handled |-> FALSE, ctx |-> ctx]
  ELSE serveCached(ctx, query, in, GetCachedResolution(ctx.redis, query, in.failGet))

\* in.failGet: the outcome of the cache read
handleCachedService(ctx, query, in) ==
  IF GetCachedResolution(ctx.redis, query, in.failGet) = ""
  THEN [handled |-> FALSE, ctx |-> ctx]
  ELSE serveCached(ctx, query, in, GetCachedResolution(ctx.redis, query, in.failGet))

\* a variant that never truncates
CapCandidatesNone(candidates, maxCandidates) == candidates

CapCandidates(candidates, maxCandidates) ==
  IF maxCandidates > 0 /\ Len(candidates) > maxCandidates
  THEN SubSeq(candidates, 1, maxCandidates)
  ELSE candidates

\* a variant that caches the best-ranked candidate
serveCandidateTop(ctx, query, in, hostname) ==
  Redirect([Called(CountUsage(ctx, hostname, in.failIncr), "CacheResolution") EXCEPT
              !.redis = CacheResolution(@, query, ctx.ranked[1], in.failCache)],
           ServiceURL(hostname))

\* count the usage, cache the resolution, redirect
serveCandidate(ctx, query, in, hostname) ==
  Redirect([Called(CountUsage(ctx, hostname, in.failIncr), "CacheResolution") EXCEPT
              !.redis = CacheResolution(@, query, hostname, in.failCache)],
           ServiceURL(hostname))

\* a variant of the loop that leaves out the allow-list test
RECURSIVE tryCandidatesUnchecked(_, _, _, _, _)
tryCandidatesUnchecked(ctx, query, in, config, candidates) ==
  IF candidates = << >> THEN Redirect(ctx, HomepageURL)
  ELSE IF config.SkipTLSValidation
  THEN serveCandidate(ctx, query, in, Head(candidates).Service.Hostname)
  ELSE IF Head(candidates).Service.Hostname \notin in.alive
  THEN tryCandidatesUnchecked(Probe(ctx, Head(candidates).Service.Hostname), query, in,
                              config, Tail(candidates))
  ELSE serveCandidate(Probe(ctx, Head(candidates).Service.Hostname), query, in,
                      Head(candidates).Service.Hostname)

\* the loop of handleServiceSearch over the ranked candidates.
\* in.alive: the hostnames whose TLS probe succeeds
RECURSIVE tryCandidates(_, _, _, _, _)
tryCandidates(ctx, query, in, config, candidates) ==
  IF candidates = << >> THEN Redirect(ctx, HomepageURL)
  ELSE IF ~AllowedRedirect[Head(candidates).Service.Hostname]
  THEN tryCandidates(ctx, query, in, config, Tail(candidates))
  ELSE IF config.SkipTLSValidation
  THEN serveCandidate(ctx, query, in, Head(candidates).Service.Hostname)
  ELSE IF Head(candidates).Service.Hostname \notin in.alive
  THEN tryCandidates(Probe(ctx, Head(candidates).Service.Hostname), query, in, config,
                     Tail(candidates))
  ELSE serveCandidate(Probe(ctx, Head(candidates).Service.Hostname), query, in,
                      Head(candidates).Service.Hostname)

\* the request has ranked: the ids of the candidates, best first
Ranked(ctx, ids) == [ctx EXCEPT !.ranked = ids]

\* a variant that returns without answering when nothing matches
serveRankedSilent(ctx, query, in, config, ranked) ==
  IF Len(ranked) = 0 THEN ctx
  ELSE tryCandidates(Ranked(ctx, [i \in 1..Len(ranked) |-> ranked[i].Service.ID]),
                     query, in, config, CapCandidates(ranked, config.MaxCandidates))

serveRanked(ctx, query, in, config, ranked) ==
  IF Len(ranked) = 0 THEN Redirect(ctx, HomepageURL)
  ELSE tryCandidates(Ranked(ctx, [i \in 1..Len(ranked) |-> ranked[i].Service.ID]),
                     query, in, config, CapCandidates(ranked, config.MaxCandidates))

\* in.order: the iteration order of the services map
handleServiceSearch(ctx, query, in, config) ==
  IF Len(in.order) = 0 THEN Redirect(ctx, HomepageURL)
  ELSE serveRanked(ctx, query, in, config,
                   RankCandidates(query, GetAllServices(ctx.idx, in.order)))

serveBookmark(ctx, candidates) ==
  IF Len(candidates) = 0 THEN Redirect(ctx, HomepageURL)
  ELSE Redirect(Ranked(ctx, [i \in 1..Len(candidates) |-> candidates[i].Bookmark.ID]),
                candidates[1].Bookmark.URL)

\* in.bmOrder: the iteration order of the bookmarks map
handleBookmarkSearch(ctx, query, in) ==
  IF BookmarkQueryStr[query] = "" THEN Redirect(ctx, HomepageURL)
  ELSE IF Len(in.bmOrder) = 0 THEN Redirect(ctx, HomepageURL)
  ELSE serveBookmark(ctx, RankBookmarkCandidates(BookmarkQueryStr[query],
                                                 GetAllBookmarks(ctx.idx, in.bmOrder)))

\* the realm the handler routes the trimmed query to
Realm ==
  [query \in QueryKeys |->
     IF query = "" THEN "empty"
     ELSE IF HasPrefix(Chars[query], <<"@">>) THEN "bookmark"
     ELSE IF HasPrefix(Chars[query], <<"/">>) THEN "internal"
     ELSE "service"]

InternalEndpoint ==
  [query \in {k \in QueryKeys : Realm[k] = "internal"} |-> matchInternalEndpoint(Chars[query])]

handleInternalEndpoint(ctx, query, reqHost) ==
  IF InternalEndpoint[query] # ""
  THEN Redirect(ctx, InternalURL(reqHost, InternalEndpoint[query]))
  ELSE Redirect(ctx, HomepageURL)

\* the service realm: the cache first, the ranking when the cache did not answer
serveService(cached, query, in, config) ==
  IF cached.handled THEN cached.ctx
  ELSE handleServiceSearch(cached.ctx, query, in, config)

\* the handler's routing of the trimmed query
route(ctx, query, reqHost, in, config) ==
  CASE Realm[query] = "empty" -> Redirect(ctx, HomepageURL)
    [] Realm[query] = "bookmark" -> handleBookmarkSearch(ctx, query, in)
    [] Realm[query] = "internal" -> handleInternalEndpoint(ctx, query, reqHost)
    [] OTHER -> serveService(handleCachedService(ctx, query, in), query, in, config)

\* the handler returned by Search(d); q is the raw value of the parameter
Search(ctx, q, reqHost, in, config) == route(ctx, TrimmedQuery[q], reqHost, in, config)

\* ------------------------------------------------------------------------
\* Source mappers
\* ------------------------------------------------------------------------
extractServiceName(hostname) == Str(Split(Chars[hostname], ".")[1])

MappedService(hostname) ==
  [ID |-> hostname, Hostname |-> hostname, Name |-> extractServiceName(hostname),
   Sources |-> <<"homepage">>, Counter |-> 0, UpdatedAt |-> 0, Disabled |-> FALSE]

\* err: no entry survives
MapServices(config) ==
  LET hrefs == SetToSeq(config)
      kept == SelectSeq(hrefs, LAMBDA href : href # "" /\ HrefHostname(href) # "")
      services == [i \in 1..Len(kept) |-> MappedService(HrefHostname(kept[i]))]
  IN [err |-> Len(services) = 0, services |-> services]

\* a variant that derives the id from the label
MappedBookmarkByLabel(entry, t) ==
  [ID |-> entry.Abbr, Abbr |-> entry.Abbr, URL |-> entry.Href,
   Sources |-> <<"homepage">>, UpdatedAt |-> t, Disabled |-> FALSE]

MappedBookmark(entry, t) ==
  [ID |-> generateBookmarkID(entry.Href), Abbr |-> entry.Abbr, URL |-> entry.Href,
   Sources |-> <<"homepage">>, UpdatedAt |-> t, Disabled |-> FALSE]

MapBookmarks(config, t) ==
  LET entries == SetToSeq(config)
      bookmarks == [i \in 1..Len(entries) |-> MappedBookmark(entries[i], t)]
  IN [err |-> Len(bookmarks) = 0, bookmarks |-> bookmarks]

\* ------------------------------------------------------------------------
\* Reloaders, bootstrap sync, garbage collector
\* ------------------------------------------------------------------------
HasSource(e, source) == \E i \in 1..Len(e.Sources) : e.Sources[i] = source

\* a variant that leaves out the services already disabled
getHomepageServicesEnabled(ix) ==
  LET all == GetAllServices(ix, SetToSeq(DOMAIN ix.services))
  IN SelectSeq(all, LAMBDA svc : HasSource(svc, "homepage") /\ ~svc.Disabled)

getHomepageServices(ix) ==
  LET all == GetAllServices(ix, SetToSeq(DOMAIN ix.services))
  IN SelectSeq(all, LAMBDA svc : HasSource(svc, "homepage"))

getHomepageBookmarks(ix) ==
  LET all == GetAllBookmarks(ix, SetToSeq(DOMAIN ix.bookmarks))
  IN SelectSeq(all, LAMBDA bm : HasSource(bm, "homepage"))

MarkDisabled(e, t) == [e EXCEPT !.Disabled = TRUE, !.UpdatedAt = t]

\* a variant of Reload that installs the new list alone
HomepageReloadDropping(ix, st, file, loadOK, t, failSave) ==
  LET mapped == MapServices(file)
  IN IF ~loadOK \/ mapped.err THEN [err |-> TRUE, idx |-> ix, redis |-> st, loaded |-> {}]
     ELSE [err |-> FALSE, idx |-> UpdateServices(ix, mapped.services),
           redis |-> SaveServicesMany(st, mapped.services, failSave),
           loaded |-> ListIDs(mapped.services)]

\* a variant of Reload that soft-deletes before it looks at the mapper's error
HomepageReloadEager(ix, st, file, loadOK, t, failSave) ==
  LET mapped == MapServices(file)
      existingServices == getHomepageServices(ix)
      newServiceIDs == ListIDs(mapped.services)
      removed == SelectSeq(existingServices, LAMBDA svc : svc.ID \notin newServiceIDs)
      disabledServices == [i \in 1..Len(removed) |-> MarkDisabled(removed[i], t)]
      newServices == mapped.services \o disabledServices
  IN IF ~loadOK THEN [err |-> TRUE, idx |-> ix, redis |-> st, loaded |-> {}]
     ELSE IF mapped.err
     THEN [err |-> TRUE, idx |-> UpdateServices(ix, newServices), redis |-> st, loaded |-> {}]
     ELSE [err |-> FALSE, idx |-> UpdateServices(ix, newServices),
           redis |-> SaveServicesMany(st, newServices, failSave), loaded |-> newServiceIDs]

\* HomepageReloader.Reload.  loadOK: the loader read and parsed the file.
HomepageReload(ix, st, file, loadOK, t, failSave) ==
  LET mapped == MapServices(file)
      existingServices == getHomepageServices(ix)
      newServiceIDs == ListIDs(mapped.services)
      removed == SelectSeq(existingServices, LAMBDA svc : svc.ID \notin newServiceIDs)
      disabledServices == [i \in 1..Len(removed) |-> MarkDisabled(removed[i], t)]
      newServices == mapped.services \o disabledServices
  IN IF ~loadOK \/ mapped.err THEN [err |-> TRUE, idx |-> ix, redis |-> st, loaded |-> {}]
     ELSE [err |-> FALSE, idx |-> UpdateServices(ix, newServices),
           redis |-> SaveServicesMany(st, newServices, failSave), loaded |-> newServiceIDs]

\* BookmarkReloader.Reload
BookmarkReload(ix, st, file, loadOK, t, failSave) ==
  LET mapped == MapBookmarks(file, t)
      existingBookmarks == getHomepageBookmarks(ix)
      newBookmarkIDs == ListIDs(mapped.bookmarks)
      removed == SelectSeq(existingBookmarks, LAMBDA bm : bm.ID \notin newBookmarkIDs)
      disabledBookmarks == [i \in 1..Len(removed) |-> MarkDisabled(removed[i], t)]
      newBookmarks == mapped.bookmarks \o disabledBookmarks
  IN IF ~loadOK \/ mapped.err THEN [err |-> TRUE, idx |-> ix, redis |-> st, loaded |-> {}]
     ELSE [err |-> FALSE, idx |-> UpdateBookmarks(ix, newBookmarks),
           redis |-> SaveBookmarksMany(st, newBookmarks, failSave), loaded |-> newBookmarkIDs]

\* a variant that installs what the store holds although the read failed
RedisSyncPartial(ix, st, failGet) ==
  LET services == StoreGetAllServices(st)
  IN IF Len(services) = 0 THEN [err |-> failGet, idx |-> ix]
     ELSE [err |-> failGet, idx |-> UpdateServices(ix, services)]

\* RedisSyncer.Sync
RedisSync(ix, st, failGet) ==
  LET services == StoreGetAllServices(st)
  IN IF failGet THEN [err |-> TRUE, idx |-> ix]
     ELSE IF Len(services) = 0 THEN [err |-> FALSE, idx |-> ix]
     ELSE [err |-> FALSE, idx |-> UpdateServices(ix, services)]

\* a variant of the test that keeps an entry on the day it reaches the threshold
CollectableLate(e, t, threshold) ==
  e.Disabled /\ e.UpdatedAt # 0 /\ ~(t - e.UpdatedAt <= threshold)

\* the test of collectServices and collectBookmarks on one entry
Collectable(e, t, threshold) ==
  e.Disabled /\ e.UpdatedAt # 0 /\ ~(t - e.UpdatedAt < threshold)

\* failDel: for each id, where its store delete fails
RECURSIVE collectServicesLoop(_, _, _, _, _)
collectServicesLoop(services, acc, t, threshold, failDel) ==
  IF services = << >> THEN acc
  ELSE LET service == Head(services)
           next == IF Collectable(service, t, threshold)
                   THEN [acc EXCEPT
                           !.idx = DeleteService(@, service.ID),
                           !.redis = StoreDeleteService(@, service.ID, failDel[service.ID]),
                           !.deleted = @ \cup {service.ID}]
                   ELSE acc
       IN collectServicesLoop(Tail(services), next, t, threshold, failDel)

collectServices(ix, st, t, threshold, failDel) ==
  collectServicesLoop(GetAllServices(ix, SetToSeq(DOMAIN ix.services)),
                      [idx |-> ix, redis |-> st, deleted |-> {}], t, threshold, failDel)

RECURSIVE collectBookmarksLoop(_, _, _, _, _)
collectBookmarksLoop(bookmarks, acc, t, threshold, failDel) ==
  IF bookmarks = << >> THEN acc
  ELSE LET bookmark == Head(bookmarks)
           next == IF Collectable(bookmark, t, threshold)
                   THEN [acc EXCEPT
                           !.idx = DeleteBookmark(@, bookmark.ID),
                           !.redis = StoreDeleteBookmark(@, bookmark.ID, failDel[bookmark.ID]),
                           !.deleted = @ \cup {bookmark.ID}]
                   ELSE acc
       IN collectBookmarksLoop(Tail(bookmarks), next, t, threshold, failDel)

collectBookmarks(ix, st, t, threshold, failDel) ==
  collectBookmarksLoop(GetAllBookmarks(ix, SetToSeq(DOMAIN ix.bookmarks)),
                       [idx |-> ix, redis |-> st, deleted |-> {}], t, threshold, failDel)

\* GarbageCollector.Collect
Collect(ix, st, t, threshold, failDel) ==
  LET bookmarksAfter(s) ==
        LET b == collectBookmarks(s.idx, s.redis, t, threshold, failDel)
        IN [idx |-> b.idx, redis |-> b.redis, deleted |-> s.deleted \cup b.deleted]
  IN CHOOSE r \in {bookmarksAfter(s) : s \in {collectServices(ix, st, t, threshold, failDel)}} : TRUE

\* ------------------------------------------------------------------------
\* Actions
\* ------------------------------------------------------------------------
CatalogVersions ==
  {Hosts,
   {"jelly.ex.io", "jel.bad.io", ""},
   {"", "not-a-valid-url"}}

BookmarkVersions ==
  {BookmarkEntries, {[Abbr |-> "Docs", Href |-> [host |-> "docs.ex.io", path |-> "/"]]}, {}}

Configs ==
  {[SkipTLSValidation |-> FALSE, MaxCandidates |-> 0],
   [SkipTLSValidation |-> FALSE, MaxCandidates |-> 1],
   [SkipTLSValidation |-> TRUE, MaxCandidates |-> 1]}

\* cache keys a previous deployment may have left in Redis
InitialCaches == {EmptyMap} \cup {[k \in {"Jel"} |-> h] : h \in {"jel.ex.io", "jel.bad.io"}}

StartOfTime == 1

NoOp == [op |-> "none", ok |-> TRUE, query |-> "", responses |-> << >>,
         incIdx |-> << >>, incStore |-> << >>, ranked |-> << >>,
         probed |-> << >>, failed |-> FALSE, again |-> << >>,
         loaded |-> {}, repeated |-> FALSE, deleted |-> {}, prior |-> {}, at |-> 0,
         sync |-> "none", events |-> << >>, file |-> {}, scored |-> << >>,
         counted |-> << >>, alive |-> {}]

\* the operation op is done at the current time
Done(op, ok) == [NoOp EXCEPT !.op = op, !.ok = ok, !.at = now]

\* a Collect run is done.  repeated: the operation before it was a Collect
\* run at the same time; prior: what that run deleted
Collecting(r) ==
  [Done("collect", TRUE) EXCEPT
     !.deleted = r.deleted,
     !.repeated = last.op = "collect" /\ last.at = now,
     !.prior = IF last.op = "collect" /\ last.at = now THEN last.deleted ELSE {}]

\* a Reload of file is done.  repeated: it succeeded, and the operation
\* before it was a successful Reload of the same reloader and the same file;
\* sync: how the bootstrap sync ended, when it is the operation before
Reloaded(op, r, file) ==
  [Done(op, ~r.err) EXCEPT
     !.loaded = r.loaded,
     !.file = IF r.err THEN {} ELSE file,
     !.repeated = ~r.err /\ last.op = op /\ last.ok /\ last.file = file,
     !.sync = IF last.op # "sync" THEN "none" ELSE IF last.ok THEN "ok" ELSE "failed"]

\* The goroutines that call the index concurrently: the reloader calls
\* UpdateServices, the request handlers call GetAllServices (Readers) and
\* IncrementCounter (Incrementers).
Updater == "reloader"

Readers == {"r1", "r2"}

Incrementers == {"i1", "i2"}

Callers == {Updater} \cup Readers \cup Incrementers

\* The index at the level of its mutex.  services maps an id to the counter
\* of its service; holder has the write lock, readers hold the read lock;
\* prev and next are the ids of the map before and after the latest call of
\* UpdateServices; applied counts, for each id, the calls of
\* IncrementCounter that found it since its entry was stored.  At the level
\* of the fields of the services: gen counts, for each id, the Service
\* values that the map has held under it; rest is what a goroutine has left
\* of its slice of services, as pairs of id and gen; access is the set of
\* the reads and writes of a service in progress.
NewCalls ==
  [services |-> EmptyMap, holder |-> "", readers |-> {},
   pc |-> [p \in Callers |-> "idle"],
   calls |-> [p \in Callers |-> 0],
   list |-> << >>, prev |-> {}, next |-> {},
   copied |-> [r \in Readers |-> {}],
   id |-> [i \in Incrementers |-> ""],
   svc |-> [i \in Incrementers |-> 0],
   applied |-> [h \in Hosts |-> 0],
   gen |-> [h \in Hosts |-> 0],
   rest |-> [p \in Callers |-> << >>],
   access |-> {}]

\* The trigger channels of the two reloaders, the goroutines that serve
\* POST /reload and the loops of the two reloaders.
Triggers == {"services", "bookmarks"}

Handlers == {"h1", "h2"}

\* chan: the signals pending in each channel; loop: where each reloader
\* loop is; pc, triggered, dropped, status: the position of each request,
\* the channels that took its signal, those that were full, its answer
NewTriggers ==
  [chan |-> [c \in Triggers |-> 0],
   loop |-> [c \in Triggers |-> "select"],
   pc |-> [h \in Handlers |-> "idle"],
   triggered |-> [h \in Handlers |-> {}],
   dropped |-> [h \in Handlers |-> {}],
   status |-> [h \in Handlers |-> 0],
   posts |-> 0]

\* The goroutines that Start leaves behind: the loops of the two reloaders
\* and of the collector.
Loops == {"services", "bookmarks", "gc"}

\* run: where App.Run is, from its select to its return; cancelled: the
\* signal context is done; stopCh: the stop channels that are closed; loop:
\* each loop is at its select, in an iteration (a Reload or a Collect, which
\* calls the store) or has returned; server: the HTTP server; closed: the
\* Redis client is closed; err: Run returned an error
NewRun ==
  [run |-> "select", cancelled |-> FALSE, stopCh |-> {},
   loop |-> [l \in Loops |-> "select"],
   server |-> "serving", closed |-> FALSE, err |-> FALSE]

\* the collector between two passes.  snapshot: what is left of the slice
\* that GetAllServices returned, each element with the fields of the
\* service it points to and whether the index still holds that pointer;
\* now: the time.Now() of Collect
NewPass == [pc |-> "idle", snapshot |-> << >>, now |-> 0, passes |-> 0, reloads |-> 0]

\* the requests that redirect to the same service
Requesters == {"r1", "r2", "r3"}

\* no request has called IncrementUsage yet.  read: the record that the
\* GetService of each request returned
NewUpdates ==
  [pc |-> [r \in Requesters |-> "idle"], read |-> [r \in Requesters |-> 0], redirects |-> 0]

\* the process before App.New, started at time t
InitAt(t) ==
  /\ phase = "new"
  /\ cfg \in Configs
  /\ now = t
  /\ advances = 0
  /\ requests = 0
  /\ idx = NewMemoryIndex
  /\ redis \in {NewRedis(c) : c \in InitialCaches}
  /\ last = NoOp
  /\ ticked = {}
  /\ mem = NewCalls
  /\ trig = NewTriggers
  /\ shut = NewRun
  /\ gc = NewPass
  /\ upd = NewUpdates

Init == InitAt(StartOfTime)

\* App.New: syncer.Sync; a failure is only logged
Sync ==
  /\ phase = "new"
  /\ \E failGet \in BOOLEAN :
       \E r \in {RedisSync(idx, redis, failGet)} :
          /\ idx' = r.idx
          /\ last' = Done("sync", ~r.err)
  /\ phase' = "synced"
  /\ UNCHANGED <<cfg, now, advances, redis, requests, ticked, mem, trig, shut, gc, upd>>

\* App.Run: reloader.Start does the first Reload; its failure ends Run
StartReloader ==
  /\ phase = "synced"
  /\ \E file \in CatalogVersions, loadOK \in BOOLEAN, failSave \in {"none", "exec"} :
       \E r \in {HomepageReload(idx, redis, file, loadOK, now, failSave)} :
          /\ idx' = r.idx
          /\ redis' = r.redis
          /\ phase' = IF r.err THEN "exited" ELSE "services"
          /\ last' = Reloaded("reload", r, file)
  /\ UNCHANGED <<cfg, now, advances, requests, ticked, mem, trig, shut, gc, upd>>

StartBookmarkReloader ==
  /\ phase = "services"
  /\ \E file \in BookmarkVersions, loadOK \in BOOLEAN, failSave \in {"none", "exec"} :
       \E r \in {BookmarkReload(idx, redis, file, loadOK, now, failSave)} :
          /\ idx' = r.idx
          /\ redis' = r.redis
          /\ phase' = IF r.err THEN "exited" ELSE "bookmarks"
          /\ last' = Reloaded("bmreload", r, file)
  /\ UNCHANGED <<cfg, now, advances, requests, ticked, mem, trig, shut, gc, upd>>

DeletedIDs == Hosts \cup {generateBookmarkID(e.Href) : e \in BookmarkEntries}

NoDeleteFailure == [id \in DeletedIDs |-> "none"]

DeleteFailures == {NoDeleteFailure} \cup {[id \in DeletedIDs |-> f] : f \in {"del", "srem"}}

\* one run of GarbageCollector.Collect
RunCollect(failures) ==
  \E failDel \in failures :
     \E r \in {Collect(idx, redis, now, DefaultGCThreshold, failDel)} :
        /\ (r.deleted = {} => failDel = NoDeleteFailure)
        /\ idx' = r.idx
        /\ redis' = r.redis
        /\ last' = Collecting(r)

\* App.Run: gc.Start collects once, then the server starts
StartGC ==
  /\ phase = "bookmarks"
  /\ RunCollect(DeleteFailures)
  /\ phase' = "running"
  /\ UNCHANGED <<cfg, now, advances, requests, ticked, mem, trig, shut, gc, upd>>

\* a variant of the loop that returns when Reload fails
LoopAfterReturning(err) == IF err THEN "exited" ELSE "running"

\* The loop of Start after a Reload that returned err: the error is logged
\* and the loop selects again.
LoopAfter(err) == "running"

\* one run of HomepageReloader.Reload in the loop of Start
SaveFaults == {"none", "exec"}

Reloading(saveFaults) ==
  \E file \in CatalogVersions, loadOK \in BOOLEAN, failSave \in saveFaults :
     \E r \in {HomepageReload(idx, redis, file, loadOK, now, failSave)} :
        /\ (r.err => failSave = "none")
        /\ idx' = r.idx
        /\ redis' = r.redis
        /\ last' = Reloaded("reload", r, file)

\* ticker or manual trigger of the services reloader
ReloadTick ==
  /\ phase = "running"
  /\ Reloading(SaveFaults)
  /\ phase' = LoopAfter(~last'.ok)
  /\ UNCHANGED <<cfg, now, advances, requests, ticked, mem, trig, shut, gc, upd>>

\* one run of BookmarkReloader.Reload in the loop of Start
BookmarkReloadingOf(files, saveFaults) ==
  \E file \in files, loadOK \in BOOLEAN, failSave \in saveFaults :
     \E r \in {BookmarkReload(idx, redis, file, loadOK, now, failSave)} :
        /\ (r.err => failSave = "none")
        /\ idx' = r.idx
        /\ redis' = r.redis
        /\ last' = Reloaded("bmreload", r, file)

BookmarkReloading(saveFaults) == BookmarkReloadingOf(BookmarkVersions, saveFaults)

BookmarkReloadTick ==
  /\ phase = "running"
  /\ BookmarkReloading(SaveFaults)
  /\ phase' = LoopAfter(~last'.ok)
  /\ UNCHANGED <<cfg, now, advances, requests, ticked, mem, trig, shut, gc, upd>>

GCTick ==
  /\ phase = "running"
  /\ RunCollect(DeleteFailures)
  /\ UNCHANGED <<phase, cfg, now, advances, requests, ticked, mem, trig, shut, gc, upd>>

\* The ways a request for the trimmed query can go before the ranking:
\* "none" outside the service realm, "miss" without cache key; with a key,
\* "hit" (the probe succeeds), "getfail" (the cache read fails), "probefail"
\* (the probe fails, the key is invalidated) or "invfail" (the probe fails
\* and the invalidation fails too).
RequestPaths(query) ==
  IF Realm[query] # "service" THEN {"none"}
  ELSE IF query \notin DOMAIN redis.cache THEN {"miss"}
  ELSE {"hit", "getfail", "probefail", "invfail"}

\* the store calls of the rest of the request that can fail, at most one
\* per request: the counter update ("get") or the cache write ("set")
RequestFaults(path) ==
  CASE path \in {"miss", "probefail"} ->
         {[failIncr |-> "none", failCache |-> "none"],
          [failIncr |-> "get", failCache |-> "none"],
          [failIncr |-> "none", failCache |-> "set"]}
    [] path = "hit" ->
         {[failIncr |-> "none", failCache |-> "none"],
          [failIncr |-> "get", failCache |-> "none"]}
    [] OTHER -> {[failIncr |-> "none", failCache |-> "none"]}

\* the iteration orders of the services map a request can meet
ServiceOrders(path) ==
  IF path \in {"none", "hit"} THEN {<< >>} ELSE Perms(DOMAIN idx.services)

BookmarkOrders(query) ==
  IF Realm[query] = "bookmark" THEN Perms(DOMAIN idx.bookmarks) ELSE {<< >>}

\* the sets of hostnames whose probe can succeed during the ranking
AliveSets(query, path) ==
  IF path \in {"none", "hit"} \/ cfg.SkipTLSValidation THEN {{}}
  ELSE SUBSET {id \in DOMAIN idx.services :
                 IsServiceCandidate(query, idx.services[id]) /\ AllowedRedirect[id]}

Inputs(path, f, o, bo, al) ==
  [failGet |-> IF path = "getfail" THEN "get" ELSE "none",
   probeCached |-> path = "hit",
   failInv |-> IF path = "invfail" THEN "del" ELSE "none",
   failIncr |-> f.failIncr, failCache |-> f.failCache,
   alive |-> al, order |-> o, bmOrder |-> bo]

\* a store call of the request fails
Failing(in) ==
  in.failGet # "none" \/ in.failInv # "none" \/ in.failIncr # "none" \/ in.failCache # "none"

\* the response and the effects of one request
Respond(q, ctx, in) ==
  /\ idx' = ctx.idx
  /\ redis' = ctx.redis
  /\ last' = [NoOp EXCEPT !.op = "search", !.query = q, !.responses = ctx.responses,
                          !.incIdx = ctx.incIdx, !.incStore = ctx.incStore,
                          !.ranked = ctx.ranked, !.probed = ctx.probed,
                          !.failed = Failing(in), !.events = ctx.events,
                          !.counted = ctx.counted, !.alive = in.alive]

\* GET /search?q=<q>, with every outcome of the store calls, of the probes
\* and of the map iteration that the request can meet
SearchReq ==
  /\ phase = "running"
  /\ requests < MaxRequests
  /\ requests' = requests + 1
  /\ \E q \in Queries, reqHost \in RequestHosts :
       \E path \in RequestPaths(TrimmedQuery[q]) :
          \E f \in RequestFaults(path), o \in ServiceOrders(path),
             bo \in BookmarkOrders(TrimmedQuery[q]), al \in AliveSets(TrimmedQuery[q], path) :
             \E in \in {Inputs(path, f, o, bo, al)} :
                \E ctx \in {Search(NewContext(idx, redis), q, reqHost, in, cfg)} :
                   Respond(q, ctx, in)
  /\ UNCHANGED <<phase, cfg, now, advances, ticked, mem, trig, shut, gc, upd>>

AdvanceTime ==
  /\ advances < MaxAdvance
  /\ \E d \in {ReloadInterval, DefaultGCThreshold} : now' = now + d
  /\ advances' = advances + 1
  /\ UNCHANGED <<phase, cfg, idx, redis, requests, last, ticked, mem, trig, shut, gc, upd>>

\* the process is started again: a new index, the same Redis
Restart ==
  /\ phase \in {"running", "exited"}
  /\ phase' = "new"
  /\ idx' = NewMemoryIndex
  /\ last' = NoOp
  /\ UNCHANGED <<cfg, now, advances, redis, requests, ticked, mem, trig, shut, gc, upd>>

\* the resolver with the reloaders, the collector and restarts
Next ==
  \/ Sync
  \/ StartReloader
  \/ StartBookmarkReloader
  \/ StartGC
  \/ ReloadTick
  \/ BookmarkReloadTick
  \/ GCTick
  \/ SearchReq
  \/ Restart

Spec == Init /\ [][Next]_vars

\* the two reloaders and the collector over time, without requests, under
\* the first configuration and with an empty cache
InitCatalog ==
  /\ Init
  /\ cfg = [SkipTLSValidation |-> FALSE, MaxCandidates |-> 0]
  /\ redis = NewRedis(EmptyMap)

\* the bookmarks loop reloads the file after an abbr was edited in it
BookmarkRelabelled ==
  /\ phase = "running"
  /\ BookmarkReloadingOf({RelabelledEntries}, SaveFaults)
  /\ phase' = LoopAfter(~last'.ok)
  /\ UNCHANGED <<cfg, now, advances, requests, ticked, mem, trig, shut, gc, upd>>

NextCatalog ==
  \/ Sync
  \/ StartReloader
  \/ StartBookmarkReloader
  \/ StartGC
  \/ ReloadTick
  \/ BookmarkReloadTick
  \/ GCTick
  \/ BookmarkRelabelled
  \/ AdvanceTime

SpecCatalog == InitCatalog /\ [][NextCatalog]_vars

\* ------------------------------------------------------------------------
\* The periodic loops with their default timers, a day at a time.
\* The code reads a timestamp only to compare now - updated_at with the
\* threshold and to test it against the zero time, so the clock is kept at
\* Epoch and a day that passes moves every stored timestamp one day back;
\* the timestamps older than the threshold by a day or more are alike.
\* ------------------------------------------------------------------------
Epoch == DefaultGCThreshold + 2 * GCInterval

OneDayOlder(t) ==
  IF t = 0 THEN 0 ELSE IF t - ReloadInterval >= 1 THEN t - ReloadInterval ELSE 1

AgeEntries(m) == [id \in DOMAIN m |-> [m[id] EXCEPT !.UpdatedAt = OneDayOlder(@)]]

AgeIndex(ix) == [services |-> AgeEntries(ix.services), bookmarks |-> AgeEntries(ix.bookmarks)]

AgeStore(st) == [st EXCEPT !.svc = AgeEntries(@), !.bm = AgeEntries(@)]

InitTimers ==
  /\ InitAt(Epoch)
  /\ cfg = [SkipTLSValidation |-> FALSE, MaxCandidates |-> 0]
  /\ redis = NewRedis(EmptyMap)

\* the ticker of the services reloader fires, once a day
TimerReload ==
  /\ phase = "running"
  /\ "reload" \notin ticked
  /\ ticked' = ticked \cup {"reload"}
  /\ Reloading({"none"})
  /\ phase' = LoopAfter(~last'.ok)
  /\ UNCHANGED <<cfg, now, advances, requests, mem, trig, shut, gc, upd>>

\* the ticker of the collector fires, once a day
TimerCollect ==
  /\ phase = "running"
  /\ "gc" \notin ticked
  /\ ticked' = ticked \cup {"gc"}
  /\ RunCollect({NoDeleteFailure})
  /\ UNCHANGED <<phase, cfg, now, advances, requests, mem, trig, shut, gc, upd>>

\* both loops have ticked: the next day starts
DayPasses ==
  /\ phase = "running"
  /\ ticked = {"reload", "gc"}
  /\ ticked' = {}
  /\ idx' = AgeIndex(idx)
  /\ redis' = AgeStore(redis)
  /\ UNCHANGED <<phase, cfg, now, advances, requests, last, mem, trig, shut, gc, upd>>

NextTimers ==
  \/ Sync
  \/ StartReloader
  \/ StartBookmarkReloader
  \/ StartGC
  \/ TimerReload
  \/ TimerCollect
  \/ DayPasses

\* The process keeps running.  In a day each loop ticks once before the next
\* day starts, so a process that keeps running ticks both loops every day.
SpecTimers == InitTimers /\ [][NextTimers]_vars /\ WF_vars(NextTimers)

\* ------------------------------------------------------------------------
\* The handler as a function of its inputs: from one state of the index and
\* of the store, the same request is answered twice and the two answers are
\* kept side by side, in last.responses and last.again.
\* ------------------------------------------------------------------------
\* the responses of a request for q in the index ix and the store st
Answer(ix, st, q, reqHost, in, config) ==
  Search(NewContext(ix, st), q, reqHost, in, config).responses

\* every store call of the request fails
AllFailing(al, o, bo) ==
  [failGet |-> "get", probeCached |-> FALSE, failInv |-> "del",
   failIncr |-> "get", failCache |-> "set", alive |-> al, order |-> o, bmOrder |-> bo]

\* no store call fails, and the cache has no key for the query
NoneFailing(al, o, bo) ==
  [failGet |-> "none", probeCached |-> FALSE, failInv |-> "none",
   failIncr |-> "none", failCache |-> "none", alive |-> al, order |-> o, bmOrder |-> bo]

EmptyCache(st) == [st EXCEPT !.cache = EmptyMap]

Twice(op, q, first, second) ==
  /\ last' = [NoOp EXCEPT !.op = op, !.query = q, !.responses = first, !.again = second]
  /\ UNCHANGED <<phase, cfg, now, advances, idx, redis, requests, ticked, mem, trig, shut, gc, upd>>

\* the same request with a store that fails every call, and with a working
\* store whose cache is empty
WithFailingStore ==
  /\ phase = "running"
  /\ \E q \in Queries, reqHost \in RequestHosts :
       \E o \in ServiceOrders("miss"), bo \in BookmarkOrders(TrimmedQuery[q]),
          al \in AliveSets(TrimmedQuery[q], "miss") :
          \E first \in {Answer(idx, redis, q, reqHost, AllFailing(al, o, bo), cfg)},
             second \in {Answer(idx, EmptyCache(redis), q, reqHost, NoneFailing(al, o, bo), cfg)} :
             Twice("failing", q, first, second)

\* the same request, the cache empty, with two iteration orders of the
\* services map and of the bookmarks map: one fixed order, and any order
WithOtherOrder ==
  /\ phase = "running"
  /\ \E q \in Queries, reqHost \in RequestHosts :
       \E o1 \in {SetToSeq(DOMAIN idx.services)}, o2 \in ServiceOrders("miss"),
          bo1 \in {IF Realm[TrimmedQuery[q]] = "bookmark"
                    THEN SetToSeq(DOMAIN idx.bookmarks) ELSE << >>},
          bo2 \in BookmarkOrders(TrimmedQuery[q]),
          al \in AliveSets(TrimmedQuery[q], "miss") :
          \E first \in {Answer(idx, EmptyCache(redis), q, reqHost, NoneFailing(al, o1, bo1), cfg)},
             second \in {Answer(idx, EmptyCache(redis), q, reqHost, NoneFailing(al, o2, bo2), cfg)} :
             Twice("orders", q, first, second)

NextTwice ==
  \/ Sync
  \/ StartReloader
  \/ StartBookmarkReloader
  \/ StartGC
  \/ ReloadTick
  \/ WithFailingStore
  \/ WithOtherOrder

\* Redis holds a cache key that an earlier deployment left
InitTwice ==
  /\ Init
  /\ redis = NewRedis([k \in {"Jel"} |-> "jel.bad.io"])

SpecTwice == InitTwice /\ [][NextTwice]_vars

\* ------------------------------------------------------------------------
\* POST /reload and the manual trigger channels, a step at a time
\* ------------------------------------------------------------------------
MaxPosts == 2

\* make(chan struct{}, 1)
TriggerCapacity == 1

StatusAccepted == 202

StatusTooManyRequests == 429

\* the default branch of the select is taken: the channel takes no signal
FullNever(pending) == FALSE

Full(pending) == pending >= TriggerCapacity

\* a variant that wants both channels to take the signal
ReloadStatusBoth(triggered) ==
  IF triggered = Triggers THEN StatusAccepted ELSE StatusTooManyRequests

\* the answer, from the channels that took the signal
ReloadStatus(triggered) ==
  IF triggered # {} THEN StatusAccepted ELSE StatusTooManyRequests

Serving(h, at) ==
  /\ phase = "running"
  /\ trig.pc[h] = at
  /\ UNCHANGED <<phase, cfg, now, advances, idx, redis, requests, last, ticked, mem, shut, gc, upd>>

\* the non-blocking send of the request of h on the channel c
TrySend(h, c, to) ==
  IF Full(trig.chan[c])
  THEN trig' = [trig EXCEPT !.pc[h] = to, !.dropped[h] = @ \cup {c}]
  ELSE trig' = [trig EXCEPT !.pc[h] = to, !.triggered[h] = @ \cup {c},
                            !.chan[c] = @ + 1]

\* a POST /reload request reaches the handler
ReloadRequest(h) ==
  /\ Serving(h, "idle")
  /\ trig.posts < MaxPosts
  /\ trig' = [trig EXCEPT !.pc[h] = "services", !.posts = @ + 1,
                          !.triggered[h] = {}, !.dropped[h] = {}, !.status[h] = 0]

\* select { case d.ReloadTrigger <- struct{}{}: ... default: ... }
TriggerServices(h) ==
  /\ Serving(h, "services")
  /\ TrySend(h, "services", "bookmarks")

\* the same select on d.BookmarkReloadTrigger; the bookmark file is
\* configured, so the channel is not nil
TriggerBookmarks(h) ==
  /\ Serving(h, "bookmarks")
  /\ TrySend(h, "bookmarks", "respond")

\* w.WriteHeader(...)
ReloadRespond(h) ==
  /\ Serving(h, "respond")
  /\ trig' = [trig EXCEPT !.pc[h] = "idle", !.status[h] = ReloadStatus(trig.triggered[h])]

\* a variant of the loop that takes the signal and selects again
TriggerReceivedLost(c) ==
  /\ phase = "running"
  /\ trig.loop[c] = "select"
  /\ trig.chan[c] > 0
  /\ trig' = [trig EXCEPT !.chan[c] = @ - 1]
  /\ UNCHANGED <<phase, cfg, now, advances, idx, redis, requests, last, ticked, mem, shut, gc, upd>>

\* case <-hr.manualTrigger: in the loop of Start of the reloader of c
TriggerReceived(c) ==
  /\ phase = "running"
  /\ trig.loop[c] = "select"
  /\ trig.chan[c] > 0
  /\ trig' = [trig EXCEPT !.chan[c] = @ - 1, !.loop[c] = "reload"]
  /\ UNCHANGED <<phase, cfg, now, advances, idx, redis, requests, last, ticked, mem, shut, gc, upd>>

\* the Reload that the services loop runs after it received the signal
ManualReload ==
  /\ phase = "running"
  /\ trig.loop["services"] = "reload"
  /\ Reloading(SaveFaults)
  /\ phase' = LoopAfter(~last'.ok)
  /\ trig' = [trig EXCEPT !.loop["services"] = "select"]
  /\ UNCHANGED <<cfg, now, advances, requests, ticked, mem, shut, gc, upd>>

\* the Reload that the bookmarks loop runs after it received the signal
ManualBookmarkReload ==
  /\ phase = "running"
  /\ trig.loop["bookmarks"] = "reload"
  /\ BookmarkReloading(SaveFaults)
  /\ phase' = LoopAfter(~last'.ok)
  /\ trig' = [trig EXCEPT !.loop["bookmarks"] = "select"]
  /\ UNCHANGED <<cfg, now, advances, requests, ticked, mem, shut, gc, upd>>

NextTrigger ==
  \/ Sync
  \/ StartReloader
  \/ StartBookmarkReloader
  \/ StartGC
  \/ \E h \in Handlers : ReloadRequest(h)
  \/ \E h \in Handlers : TriggerServices(h)
  \/ \E h \in Handlers : TriggerBookmarks(h)
  \/ \E h \in Handlers : ReloadRespond(h)
  \/ \E c \in Triggers : TriggerReceived(c)
  \/ ManualReload
  \/ ManualBookmarkReload

SpecTrigger == InitCatalog /\ [][NextTrigger]_vars

\* the goroutines of the two loops keep running: a loop that can take a
\* signal or finish its Reload does so
SpecTriggerFair ==
  /\ SpecTrigger
  /\ \A c \in Triggers : WF_vars(TriggerReceived(c))
  /\ WF_vars(ManualReload)
  /\ WF_vars(ManualBookmarkReload)

\* ------------------------------------------------------------------------
\* The memory index at the level of its sync.RWMutex: every call is a
\* sequence of steps, and the steps of concurrent calls interleave.
\* ------------------------------------------------------------------------
MaxCalls == 2

\* the lists the reloader installs, as ids
UpdateLists == {<<"jel.ex.io", "jelly.ex.io">>, <<"jelly.ex.io">>}

\* mu.Lock() returns
CanLockAlways(m) == TRUE

CanLock(m) == m.holder = "" /\ m.readers = {}

\* mu.RLock() returns
CanRLockAlways(m) == TRUE

CanRLock(m) == m.holder = ""

Calling(p, from) ==
  /\ mem.pc[p] = from
  /\ UNCHANGED <<phase, cfg, now, advances, idx, redis, requests, last, ticked, trig, shut, gc, upd>>

Goes(p, to, m) == mem' = [m EXCEPT !.pc[p] = to]

\* UpdateServices(services) is called
UpdateServicesCall ==
  /\ Calling(Updater, "idle")
  /\ mem.calls[Updater] < MaxCalls
  /\ \E services \in UpdateLists :
       Goes(Updater, "lock",
            [mem EXCEPT !.calls[Updater] = @ + 1, !.list = services,
                        !.prev = DOMAIN mem.services,
                        !.next = {services[i] : i \in 1..Len(services)}])

\* idx.mu.Lock()
UpdateServicesLock ==
  /\ Calling(Updater, "lock")
  /\ CanLock(mem)
  /\ Goes(Updater, "make", [mem EXCEPT !.holder = Updater])

\* idx.services = make(map[string]*domain.Service, len(services))
UpdateServicesMake ==
  /\ Calling(Updater, "make")
  /\ Goes(Updater, "range", [mem EXCEPT !.services = EmptyMap])

\* one turn of the loop: idx.services[service.ID] = service
UpdateServicesStore ==
  /\ Calling(Updater, "range")
  /\ mem.list # << >>
  /\ Goes(Updater, "range",
          [mem EXCEPT !.services = MapPut(@, Head(mem.list), 0),
                      !.applied[Head(mem.list)] = 0,
                      !.list = Tail(@)])

\* the loop is over: the deferred idx.mu.Unlock()
UpdateServicesUnlock ==
  /\ Calling(Updater, "range")
  /\ mem.list = << >>
  /\ Goes(Updater, "idle", [mem EXCEPT !.holder = ""])

\* GetAllServices() is called
GetAllServicesCall(r) ==
  /\ Calling(r, "idle")
  /\ mem.calls[r] < MaxCalls
  /\ Goes(r, "rlock", [mem EXCEPT !.calls[r] = @ + 1])

\* idx.mu.RLock()
GetAllServicesRLock(r) ==
  /\ Calling(r, "rlock")
  /\ CanRLock(mem)
  /\ Goes(r, "range", [mem EXCEPT !.readers = @ \cup {r}, !.copied[r] = {}])

\* one turn of the loop: services = append(services, service)
GetAllServicesAppend(r) ==
  /\ Calling(r, "range")
  /\ \E id \in (DOMAIN mem.services) \ mem.copied[r] :
       Goes(r, "range", [mem EXCEPT !.copied[r] = @ \cup {id}])

\* the loop is over: the deferred idx.mu.RUnlock(), and the slice is returned
GetAllServicesReturn(r) ==
  /\ Calling(r, "range")
  /\ (DOMAIN mem.services) \subseteq mem.copied[r]
  /\ Goes(r, "idle", [mem EXCEPT !.readers = @ \ {r}, !.copied[r] = {}])

\* IncrementCounter(id) is called
IncrementCounterCall(i) ==
  /\ Calling(i, "idle")
  /\ mem.calls[i] < MaxCalls
  /\ \E id \in {"jel.ex.io"} :
       Goes(i, "lock", [mem EXCEPT !.calls[i] = @ + 1, !.id[i] = id])

\* idx.mu.Lock()
IncrementCounterLock(i) ==
  /\ Calling(i, "lock")
  /\ CanLock(mem)
  /\ Goes(i, "load", [mem EXCEPT !.holder = i])

\* service, ok := idx.services[id], and the read of service.Counter
IncrementCounterLoad(i) ==
  /\ Calling(i, "load")
  /\ IF mem.id[i] \in DOMAIN mem.services
     THEN Goes(i, "store", [mem EXCEPT !.svc[i] = mem.services[mem.id[i]] + 1])
     ELSE Goes(i, "unlock", mem)

\* the write of service.Counter that ends service.Counter++
IncrementCounterStore(i) ==
  /\ Calling(i, "store")
  /\ Goes(i, "unlock",
          [mem EXCEPT !.services = MapPut(@, mem.id[i], mem.svc[i]),
                      !.applied[mem.id[i]] = @ + 1,
                      !.svc[i] = 0])

\* the deferred idx.mu.Unlock()
IncrementCounterUnlock(i) ==
  /\ Calling(i, "unlock")
  /\ Goes(i, "idle", [mem EXCEPT !.holder = "", !.id[i] = ""])

InitLock ==
  /\ Init
  /\ cfg = [SkipTLSValidation |-> FALSE, MaxCandidates |-> 0]
  /\ redis = NewRedis(EmptyMap)

NextLock ==
  \/ UpdateServicesCall
  \/ UpdateServicesLock
  \/ UpdateServicesMake
  \/ UpdateServicesStore
  \/ UpdateServicesUnlock
  \/ \E r \in Readers : GetAllServicesCall(r)
  \/ \E r \in Readers : GetAllServicesRLock(r)
  \/ \E r \in Readers : GetAllServicesAppend(r)
  \/ \E r \in Readers : GetAllServicesReturn(r)
  \/ \E i \in Incrementers : IncrementCounterCall(i)
  \/ \E i \in Incrementers : IncrementCounterLock(i)
  \/ \E i \in Incrementers : IncrementCounterLoad(i)
  \/ \E i \in Incrementers : IncrementCounterStore(i)
  \/ \E i \in Incrementers : IncrementCounterUnlock(i)

SpecLock == InitLock /\ [][NextLock]_vars

\* ------------------------------------------------------------------------
\* App.Run from the moment the server is started: the signal, the select
\* of Run, the three Stop calls, the shutdown of the server and the close
\* of the Redis client, with the three loops running beside it.  When Run
\* has returned the process ends and no goroutine takes another step.
\* ------------------------------------------------------------------------
\* App.Run is at the step at
Running(at) ==
  /\ shut.run = at
  /\ UNCHANGED <<phase, cfg, now, advances, idx, redis, requests, last, ticked, mem, trig, gc, upd>>

\* the process is alive
Alive ==
  /\ shut.run # "returned"
  /\ UNCHANGED <<phase, cfg, now, advances, idx, redis, requests, last, ticked, mem, trig, gc, upd>>

\* SIGINT or SIGTERM: the context of signal.NotifyContext is done
Signal ==
  /\ Alive
  /\ ~shut.cancelled
  /\ shut' = [shut EXCEPT !.cancelled = TRUE]

\* ListenAndServe returns an error: the goroutine of Run sends it on errCh
ServerFails ==
  /\ Running("select")
  /\ shut.server = "serving"
  /\ shut' = [shut EXCEPT !.server = "failed"]

\* select of Run, case <-ctx.Done(): the shutdown starts
RunCancelled ==
  /\ Running("select")
  /\ shut.cancelled
  /\ shut' = [shut EXCEPT !.run = "stopReloader"]

\* select of Run, case err := <-errCh: return err
RunServerError ==
  /\ Running("select")
  /\ shut.server = "failed"
  /\ shut' = [shut EXCEPT !.run = "returned", !.err = TRUE]

\* Stop of a reloader or of the collector: close(stopCh), nothing more
Stop(l, at, to) ==
  /\ Running(at)
  /\ shut' = [shut EXCEPT !.stopCh = @ \cup {l}, !.run = to]

ReloaderStop == Stop("services", "stopReloader", "stopBookmarks")

BookmarkReloaderStop == Stop("bookmarks", "stopBookmarks", "stopGC")

GCStop == Stop("gc", "stopGC", "stopServer")

\* a.server.Stop(shutdownCtx): the server drained in time, or Run returns
\* the error of Shutdown
ServerStop ==
  /\ Running("stopServer")
  /\ \E drained \in BOOLEAN :
       shut' = IF drained /\ shut.server = "serving"
               THEN [shut EXCEPT !.server = "stopped", !.run = "closeRedis"]
               ELSE IF drained THEN [shut EXCEPT !.run = "closeRedis"]
               ELSE [shut EXCEPT !.run = "returned", !.err = TRUE]

\* a.redisClient.Close(), then Run returns nil
RedisClose ==
  /\ Running("closeRedis")
  /\ shut' = [shut EXCEPT !.closed = TRUE, !.run = "returned"]

\* select of the loop l, case <-ticker.C or <-manualTrigger: an iteration
\* starts.  select takes any ready case, also when stopCh is closed.
LoopIterates(l) ==
  /\ Alive
  /\ shut.loop[l] = "select"
  /\ shut' = [shut EXCEPT !.loop[l] = "iteration"]

\* the Reload or Collect of the iteration returns, the loop selects again
LoopSelects(l) ==
  /\ Alive
  /\ shut.loop[l] = "iteration"
  /\ shut' = [shut EXCEPT !.loop[l] = "select"]

\* select of the loop l, case <-stopCh or <-ctx.Done(): return
LoopReturns(l) ==
  /\ Alive
  /\ shut.loop[l] = "select"
  /\ l \in shut.stopCh \/ shut.cancelled
  /\ shut' = [shut EXCEPT !.loop[l] = "returned"]

InitShutdown ==
  /\ InitCatalog
  /\ phase = "new"

NextShutdown ==
  \/ Signal
  \/ ServerFails
  \/ RunCancelled
  \/ RunServerError
  \/ ReloaderStop
  \/ BookmarkReloaderStop
  \/ GCStop
  \/ ServerStop
  \/ RedisClose
  \/ \E l \in Loops : LoopIterates(l)
  \/ \E l \in Loops : LoopSelects(l)
  \/ \E l \in Loops : LoopReturns(l)

SpecShutdown == InitShutdown /\ [][NextShutdown]_vars

\* ------------------------------------------------------------------------
\* RankCandidates as a function of the index: the services of the catalog
\* are in the index, requests increment their counters, reloads soft-delete
\* them, and the ranking of each query of the service realm is taken under
\* every iteration order of the map.
\* ------------------------------------------------------------------------
MaxCounter == 3

\* the index after the first Reload of the whole catalog
InitRanking ==
  /\ phase = "running"
  /\ cfg = [SkipTLSValidation |-> FALSE, MaxCandidates |-> 0]
  /\ now = StartOfTime
  /\ advances = 0
  /\ requests = 0
  /\ idx = UpdateServices(NewMemoryIndex, MapServices(Hosts).services)
  /\ redis = NewRedis(EmptyMap)
  /\ last = NoOp
  /\ ticked = {}
  /\ mem = NewCalls
  /\ trig = NewTriggers
  /\ shut = NewRun
  /\ gc = NewPass
  /\ upd = NewUpdates

\* the other variables stay as they are
Ranking ==
  UNCHANGED <<phase, cfg, now, advances, redis, requests, ticked, mem, trig, shut, gc, upd>>

\* a redirect to id: memIndex.IncrementCounter(id)
Used(id) ==
  /\ Ranking
  /\ idx.services[id].Counter < MaxCounter
  /\ idx' = IncrementCounter(idx, id)
  /\ last' = Done("use", TRUE)

\* a Reload of a file without id soft-deletes it
Removed(id) ==
  /\ Ranking
  /\ ~idx.services[id].Disabled
  /\ idx' = [idx EXCEPT !.services[id] = MarkDisabled(@, now)]
  /\ last' = Done("remove", TRUE)

\* handleServiceSearch: GetAllServices, then RankCandidates
Ranks ==
  /\ Ranking
  /\ \E query \in {k \in QueryKeys : Realm[k] = "service"}, order \in Perms(DOMAIN idx.services) :
       \E ranked \in {RankCandidates(query, GetAllServices(idx, order))} :
          last' = [Done("rank", TRUE) EXCEPT
                     !.query = query,
                     !.ranked = [i \in 1..Len(ranked) |-> ranked[i].Service.ID]]
  /\ idx' = idx

NextRanking ==
  \/ \E id \in Hosts : Used(id)
  \/ \E id \in Hosts : Removed(id)
  \/ Ranks

SpecRanking == InitRanking /\ [][NextRanking]_vars

\* ------------------------------------------------------------------------
\* scoreFragment and ScoreBookmark as functions: each call scores one pair
\* of strings; last.scored keeps the result, with the way the pair matches,
\* in front of the result of the call of the same function before it.
\* ------------------------------------------------------------------------
MaxPosition == 3

\* query fragments and hostname labels
Fragments ==
  {<<"j","e","l">>, <<"J","e","l">>, <<"j","e","l","l","y">>, <<"e","l">>,
   <<"l","e","j">>, <<"j","e","x">>, <<"z","z","z">>}

\* query strings of the bookmark realm
BookmarkQueries ==
  {<<"c","h","a","t">>, <<"D","o","c","s">>, <<"c","h">>, <<"h","a","t">>,
   <<"c","a","t">>, <<"c","h","a","x">>, <<"c","h"," ","a","t">>, <<"z","z","z">>}

\* how the string q matches the string h: the tests of scoreFragment and
\* of ScoreBookmark, in their order
MatchLevel(q, h) ==
  IF q = << >> \/ h = << >> THEN "none"
  ELSE IF q = h THEN "exact"
  ELSE IF HasPrefix(h, q) THEN "prefix"
  ELSE IF Contains(h, q) THEN "substring"
  ELSE IF \/ 2 * SimilarityMatches(q, h) > Len(q)
          \/ Len(Fields(q)) > 1 /\ \A i \in 1..Len(Fields(q)) : Contains(h, Fields(q)[i])
  THEN "fuzzy"
  ELSE "none"

ScoredFragment(queryFrag, hostFrag, position) ==
  [level |-> MatchLevel(normalizeFragment(queryFrag), normalizeFragment(hostFrag)),
   score |-> scoreFragment(queryFrag, hostFrag, position)]

ScoredBookmark(queryStr, abbr) ==
  [level |-> MatchLevel(ToLower(TrimSpace(queryStr)), ToLower(Chars[abbr])),
   score |-> ScoreBookmark(queryStr, [Abbr |-> abbr])]

\* the other variables stay as they are
Scoring ==
  UNCHANGED <<phase, cfg, now, advances, idx, redis, requests, ticked, mem, trig, shut, gc, upd>>

\* the result of the call before, when it was a call of the function op
Earlier(op) == IF last.op = op THEN <<last.scored[1]>> ELSE << >>

\* scoreWithSubdomains and scoreTopLevelOnly call scoreFragment
ScoresFragments ==
  /\ Scoring
  /\ \E q, h \in Fragments, p \in 0..MaxPosition :
       last' = [Done("scoreFragment", TRUE) EXCEPT
                  !.scored = <<ScoredFragment(q, h, p)>> \o Earlier("scoreFragment")]

\* RankBookmarkCandidates calls ScoreBookmark
ScoresBookmarks ==
  /\ Scoring
  /\ \E q \in BookmarkQueries, a \in {"chat", "Docs"} :
       last' = [Done("ScoreBookmark", TRUE) EXCEPT
                  !.scored = <<ScoredBookmark(q, a)>> \o Earlier("ScoreBookmark")]

NextScoring ==
  \/ ScoresFragments
  \/ ScoresBookmarks

SpecScoring == InitRanking /\ [][NextScoring]_vars

\* ------------------------------------------------------------------------
\* The collector beside the reloader: Collect takes its time and its
\* snapshot, then visits the services of the snapshot one by one, and a
\* Reload of the services loop can run between two of these steps.
\* ------------------------------------------------------------------------
MaxPasses == 2

MaxReloads == 2

\* jel.ex.io left the catalog DefaultGCThreshold days ago and jel.bad.io a
\* day ago; no Reload has succeeded since
InitGCRace ==
  /\ phase = "running"
  /\ cfg = [SkipTLSValidation |-> FALSE, MaxCandidates |-> 0]
  /\ now = Epoch
  /\ advances = 0
  /\ requests = 0
  /\ idx = UpdateServices(NewMemoryIndex,
                          <<MappedService("jelly.ex.io"),
                            MarkDisabled(MappedService("jel.ex.io"), Epoch - DefaultGCThreshold),
                            MarkDisabled(MappedService("jel.bad.io"), Epoch - GCInterval)>>)
  /\ redis = NewRedis(EmptyMap)
  /\ last = NoOp
  /\ ticked = {}
  /\ mem = NewCalls
  /\ trig = NewTriggers
  /\ shut = NewRun
  /\ gc = NewPass
  /\ upd = NewUpdates

\* the other variables stay as they are
BesideCollector ==
  UNCHANGED <<phase, cfg, now, advances, requests, ticked, mem, trig, shut, upd>>

\* Collect: now := time.Now(); collectServices: gc.index.GetAllServices()
GCSnapshot ==
  /\ BesideCollector
  /\ gc.pc = "idle"
  /\ gc.passes < MaxPasses
  /\ \E order \in Perms(DOMAIN idx.services) :
       gc' = [gc EXCEPT !.pc = "range", !.now = now, !.passes = @ + 1,
                        !.snapshot = [i \in 1..Len(order) |->
                                        [svc |-> GetAllServices(idx, order)[i], alias |-> TRUE]]]
  /\ UNCHANGED <<idx, redis, last>>

\* one turn of the loop of collectServices: the three tests on the service
\* of the snapshot, then DeleteService on the index and on the store
GCVisit ==
  /\ BesideCollector
  /\ gc.pc = "range"
  /\ gc.snapshot # << >>
  /\ gc' = [gc EXCEPT !.snapshot = Tail(@)]
  /\ IF Collectable(Head(gc.snapshot).svc, gc.now, DefaultGCThreshold)
     THEN /\ idx' = DeleteService(idx, Head(gc.snapshot).svc.ID)
          /\ redis' = StoreDeleteService(redis, Head(gc.snapshot).svc.ID, "none")
          /\ last' = [Done("collect", TRUE) EXCEPT !.deleted = {Head(gc.snapshot).svc.ID}]
     ELSE UNCHANGED <<idx, redis, last>>

\* the loop of collectServices is over
GCReturn ==
  /\ BesideCollector
  /\ gc.pc = "range"
  /\ gc.snapshot = << >>
  /\ gc' = [gc EXCEPT !.pc = "idle"]
  /\ UNCHANGED <<idx, redis, last>>

\* what the element e of the snapshot points to after the Reload r: the
\* mapper makes a new service for each id of the file, and an id that is
\* not in the file is marked in the service that the snapshot shares
Seen(e, r) ==
  IF r.err \/ ~e.alias THEN e
  ELSE IF e.svc.ID \in r.loaded THEN [e EXCEPT !.alias = FALSE]
  ELSE [e EXCEPT !.svc = r.idx.services[e.svc.ID]]

\* a Reload of the services loop, on a tick or a trigger
RaceReload ==
  /\ BesideCollector
  /\ gc.reloads < MaxReloads
  /\ \E file \in CatalogVersions, loadOK \in BOOLEAN :
       \E r \in {HomepageReload(idx, redis, file, loadOK, now, "none")} :
          /\ idx' = r.idx
          /\ redis' = r.redis
          /\ last' = Reloaded("reload", r, file)
          /\ gc' = [gc EXCEPT !.reloads = @ + 1,
                              !.snapshot = [i \in 1..Len(@) |-> Seen(@[i], r)]]

NextGCRace ==
  \/ GCSnapshot
  \/ GCVisit
  \/ GCReturn
  \/ RaceReload

SpecGCRace == InitGCRace /\ [][NextGCRace]_vars

\* ------------------------------------------------------------------------
\* The fields of the services under concurrent goroutines: a Reload, a
\* request that ranks and a request that counts a redirect.  The index is
\* idx, its mutex is in mem, and every read or write of a service takes two
\* steps, so that two of them can be in progress together.
\* ------------------------------------------------------------------------
MaxRounds == 1

InitFields ==
  /\ phase = "running"
  /\ cfg = [SkipTLSValidation |-> FALSE, MaxCandidates |-> 0]
  /\ now = StartOfTime
  /\ advances = 0
  /\ requests = 0
  /\ idx = UpdateServices(NewMemoryIndex, MapServices(Hosts).services)
  /\ redis = NewRedis(EmptyMap)
  /\ last = NoOp
  /\ ticked = {}
  /\ mem = NewCalls
  /\ trig = NewTriggers
  /\ shut = NewRun
  /\ gc = NewPass
  /\ upd = NewUpdates

\* the goroutine p is at the place from; the other variables stay
At(p, from) ==
  /\ mem.pc[p] = from
  /\ UNCHANGED <<phase, cfg, now, advances, redis, requests, last, ticked, trig, shut, gc, upd>>

\* the services of the index as the slice GetAllServices returns
Pointers(ids) == [i \in 1..Len(SetToSeq(ids)) |-> <<SetToSeq(ids)[i], mem.gen[SetToSeq(ids)[i]]>>]

\* the access of p to the service e, a pair of id and gen
Access(p, e, kind) == [who |-> p, id |-> e[1], gen |-> e[2], kind |-> kind]

\* Reload: the file is loaded and mapped, getHomepageServices returns the
\* existing services, and those that are not in the file are to be marked
ReloadExisting ==
  /\ At(Updater, "idle")
  /\ mem.calls[Updater] < MaxRounds + 1
  /\ CanRLock(mem)
  /\ \E file \in {f \in CatalogVersions : ~MapServices(f).err} :
       mem' = [mem EXCEPT !.pc[Updater] = "mark", !.calls[Updater] = @ + 1,
                          !.list = SetToSeq(ListIDs(MapServices(file).services)),
                          !.rest[Updater] =
                             Pointers((DOMAIN idx.services) \ ListIDs(MapServices(file).services))]
  /\ idx' = idx

\* existing.Disabled = true begins: no lock is held
MarkBegin ==
  /\ At(Updater, "mark")
  /\ mem.rest[Updater] # << >>
  /\ mem' = [mem EXCEPT !.pc[Updater] = "marking",
                        !.access = @ \cup {Access(Updater, Head(mem.rest[Updater]), "write")}]
  /\ idx' = idx

\* existing.UpdatedAt = time.Now() is done
MarkEnd ==
  /\ At(Updater, "marking")
  /\ mem' = [mem EXCEPT !.pc[Updater] = "mark", !.rest[Updater] = Tail(@),
                        !.access = @ \ {Access(Updater, Head(mem.rest[Updater]), "write")}]
  /\ idx' = [idx EXCEPT !.services[Head(mem.rest[Updater])[1]] = MarkDisabled(@, now)]

\* hr.index.UpdateServices(newServices): the new services of the file and
\* the marked ones, under the write lock
ReloadUpdate ==
  /\ At(Updater, "mark")
  /\ mem.rest[Updater] = << >>
  /\ CanLock(mem)
  /\ mem' = [mem EXCEPT !.pc[Updater] = "idle",
                        !.gen = [h \in Hosts |->
                                   IF \E i \in 1..Len(mem.list) : mem.list[i] = h
                                   THEN @[h] + 1 ELSE @[h]]]
  /\ idx' = UpdateServices(idx,
               [i \in 1..Len(mem.list) |-> MappedService(mem.list[i])]
                 \o SelectSeq(GetAllServices(idx, SetToSeq(DOMAIN idx.services)),
                              LAMBDA svc : \A i \in 1..Len(mem.list) : mem.list[i] # svc.ID))

\* handleServiceSearch: memIndex.GetAllServices()
RankSnapshot(r) ==
  /\ At(r, "idle")
  /\ mem.calls[r] < MaxRounds
  /\ CanRLock(mem)
  /\ mem' = [mem EXCEPT !.pc[r] = "range", !.calls[r] = @ + 1,
                        !.rest[r] = Pointers(DOMAIN idx.services)]
  /\ idx' = idx

\* RankCandidates: the read of service.Disabled begins
ReadBegin(r) ==
  /\ At(r, "range")
  /\ mem.rest[r] # << >>
  /\ mem' = [mem EXCEPT !.pc[r] = "reading",
                        !.access = @ \cup {Access(r, Head(mem.rest[r]), "read")}]
  /\ idx' = idx

\* the read of service.Counter is done
ReadEnd(r) ==
  /\ At(r, "reading")
  /\ mem' = [mem EXCEPT !.pc[r] = "range", !.rest[r] = Tail(@),
                        !.access = @ \ {Access(r, Head(mem.rest[r]), "read")}]
  /\ idx' = idx

\* the loop of RankCandidates is over
RankReturn(r) ==
  /\ At(r, "range")
  /\ mem.rest[r] = << >>
  /\ mem' = [mem EXCEPT !.pc[r] = "idle"]
  /\ idx' = idx

\* IncrementCounter(id): idx.mu.Lock() and the lookup of id
CountLock(i) ==
  /\ At(i, "idle")
  /\ mem.calls[i] < MaxRounds
  /\ CanLock(mem)
  /\ \E id \in DOMAIN idx.services :
       mem' = [mem EXCEPT !.pc[i] = "writing", !.calls[i] = @ + 1, !.holder = i,
                          !.rest[i] = <<<<id, mem.gen[id]>>>>,
                          !.access = @ \cup {Access(i, <<id, mem.gen[id]>>, "write")}]
  /\ idx' = idx

\* service.Counter++ is done and the deferred Unlock runs
CountUnlock(i) ==
  /\ At(i, "writing")
  /\ mem' = [mem EXCEPT !.pc[i] = "idle", !.holder = "", !.rest[i] = << >>,
                        !.access = @ \ {Access(i, Head(mem.rest[i]), "write")}]
  /\ idx' = IncrementCounter(idx, Head(mem.rest[i])[1])

NextFields ==
  \/ ReloadExisting
  \/ MarkBegin
  \/ MarkEnd
  \/ ReloadUpdate
  \/ \E r \in Readers : RankSnapshot(r)
  \/ \E r \in Readers : ReadBegin(r)
  \/ \E r \in Readers : ReadEnd(r)
  \/ \E r \in Readers : RankReturn(r)
  \/ \E i \in Incrementers : CountLock(i)
  \/ \E i \in Incrementers : CountUnlock(i)

SpecFields == InitFields /\ [][NextFields]_vars

\* ------------------------------------------------------------------------
\* Concurrent requests that redirect to the same service: each one calls
\* store.IncrementUsage, which reads the record and saves it with the
\* counter incremented, and then memIndex.IncrementCounter.  No store
\* call fails.
\* ------------------------------------------------------------------------
\* the service that the requests redirect to
Target == "jel.ex.io"

\* the index and the store after the first Reload of the whole catalog
InitUsage ==
  /\ phase = "running"
  /\ cfg = [SkipTLSValidation |-> FALSE, MaxCandidates |-> 0]
  /\ now = StartOfTime
  /\ advances = 0
  /\ requests = 0
  /\ idx = UpdateServices(NewMemoryIndex, MapServices(Hosts).services)
  /\ redis = SaveServicesMany(NewRedis(EmptyMap), MapServices(Hosts).services, "none")
  /\ last = NoOp
  /\ ticked = {}
  /\ mem = NewCalls
  /\ trig = NewTriggers
  /\ shut = NewRun
  /\ gc = NewPass
  /\ upd = NewUpdates

\* the request r is at the place from; the other variables stay
Redirecting(r, from) ==
  /\ upd.pc[r] = from
  /\ UNCHANGED <<phase, cfg, now, advances, requests, last, ticked, mem, trig, shut, gc>>

\* UpdateServiceCounter: service, err := s.GetService(ctx, id)
UsageGet(r) ==
  /\ Redirecting(r, "idle")
  /\ upd' = [upd EXCEPT !.pc[r] = "got", !.read[r] = UnmarshalService(redis.svc[Target]),
                        !.redirects = @ + 1]
  /\ UNCHANGED <<idx, redis>>

\* service.Counter++, then s.SaveService(ctx, service)
UsageSave(r) ==
  /\ Redirecting(r, "got")
  /\ upd' = [upd EXCEPT !.pc[r] = "saved"]
  /\ redis' = SaveService(redis, [upd.read[r] EXCEPT !.Counter = @ + 1], "none")
  /\ idx' = idx

\* memIndex.IncrementCounter(hostname), under the lock of the index
UsageCounted(r) ==
  /\ Redirecting(r, "saved")
  /\ upd' = [upd EXCEPT !.pc[r] = "done"]
  /\ idx' = IncrementCounter(idx, Target)
  /\ redis' = redis

NextUsage ==
  \/ \E r \in Requesters : UsageGet(r)
  \/ \E r \in Requesters : UsageSave(r)
  \/ \E r \in Requesters : UsageCounted(r)

SpecUsage == InitUsage /\ [][NextUsage]_vars

\* ------------------------------------------------------------------------
\* Properties of the resolver (checked under Spec)
\* ------------------------------------------------------------------------
Responses == {last.responses[i] : i \in 1..Len(last.responses)}

Searched == last.op = "search"

SearchedRealm == Realm[TrimmedQuery[last.query]]

EnabledBookmarkURLs == {idx.bookmarks[id].URL : id \in {b \in DOMAIN idx.bookmarks : ~idx.bookmarks[b].Disabled}}

\* C1, as stated: every answer of /search is a 302 whose Location is the
\* home URL or a URL whose host the redirect allow-list allows.
C1AllowListedOnly ==
  Searched =>
    \A r \in Responses :
       /\ r.status = StatusFound
       /\ \/ r.location = HomepageURL
          \/ isAllowedRedirect(r.location.host, AllowedDomains)

\* C1, amended: every answer of /search is a 302 whose Location is the home
\* URL, or a URL whose host the redirect allow-list allows, or, for a query
\* of the bookmark realm, the URL of an enabled bookmark of the index.
C1Location ==
  Searched =>
    \A r \in Responses :
       /\ r.status = StatusFound
       /\ \/ r.location = HomepageURL
          \/ isAllowedRedirect(r.location.host, AllowedDomains)
          \/ SearchedRealm = "bookmark" /\ r.location \in EnabledBookmarkURLs

\* a bookmark query answered with the URL of a bookmark outside the allow-list
C1Witness ==
  /\ Searched
  /\ last.query = "@chat"
  /\ last.responses = <<[status |-> StatusFound, location |-> [host |-> "chat.ai", path |-> "/"]]>>

\* C2: every execution of the /search handler writes exactly one response,
\* and its status is 302, whatever the path taken and whatever failed.
C2OneResponse ==
  Searched => Len(last.responses) = 1 /\ last.responses[1].status = StatusFound

\* a service query that went through the ranking and ended on the home URL
C2Witness ==
  /\ Searched
  /\ last.query = "Jel "
  /\ last.responses = <<[status |-> StatusFound, location |-> HomepageURL]>>
  /\ DOMAIN idx.services # {}

\* C3, as stated: a non-home answer to a service query targets a hostname
\* whose service is in the index and not disabled, also when the hostname
\* came from the cache.
C3IndexWins ==
  (Searched /\ SearchedRealm = "service") =>
    \A r \in Responses :
       r.location # HomepageURL =>
         /\ r.location.host \in DOMAIN idx.services
         /\ ~idx.services[r.location.host].Disabled

\* C4, as stated: when a request increments the counter of h, in the index
\* or in the store, the Location of its answer is https://h.
C4CountedOnRedirect ==
  Searched =>
    \A h \in {last.incIdx[i] : i \in 1..Len(last.incIdx)}
             \cup {last.incStore[i] : i \in 1..Len(last.incStore)} :
       last.responses = <<[status |-> StatusFound, location |-> ServiceURL(h)]>>

\* C5, as stated: while a service id stays in the index its counter never
\* decreases, whatever step is taken.
C5CounterMonotone ==
  [][\A id \in (DOMAIN idx.services) \cap (DOMAIN idx'.services) :
       idx'.services[id].Counter >= idx.services[id].Counter]_vars

\* C12: the candidates a request got from RankCandidates or
\* RankBookmarkCandidates are all enabled entries of the index, and a
\* redirect chosen by ranking goes home or to one of them.
C12RankedEnabled ==
  (Searched /\ last.ranked # << >>) =>
    IF SearchedRealm = "bookmark"
    THEN /\ \A i \in 1..Len(last.ranked) :
              /\ last.ranked[i] \in DOMAIN idx.bookmarks
              /\ ~idx.bookmarks[last.ranked[i]].Disabled
         /\ \A r \in Responses :
              r.location \in {HomepageURL}
                \cup {idx.bookmarks[last.ranked[i]].URL : i \in 1..Len(last.ranked)}
    ELSE /\ \A i \in 1..Len(last.ranked) :
              /\ last.ranked[i] \in DOMAIN idx.services
              /\ ~idx.services[last.ranked[i]].Disabled
         /\ \A r \in Responses :
              r.location \in {HomepageURL}
                \cup {ServiceURL(idx.services[last.ranked[i]].Hostname) : i \in 1..Len(last.ranked)}

\* a request ranked the services while the best match of its query was
\* disabled in the index, and got the other matches alone
C12Witness ==
  /\ Searched
  /\ last.query = "Jel "
  /\ "jel.ex.io" \in DOMAIN idx.services
  /\ idx.services["jel.ex.io"].Disabled
  /\ \E i \in 1..Len(last.ranked) : last.ranked[i] = "jelly.ex.io"
  /\ \A i \in 1..Len(last.ranked) : last.ranked[i] # "jel.ex.io"

\* C14, as stated: with skip_tls_validation no request probes a hostname,
\* cached or ranked.
C14NoProbe ==
  (Searched /\ cfg.SkipTLSValidation) => last.probed = << >>

\* the step is a /search request
SearchServed == last'.op = "search" /\ requests' = requests + 1

\* the trimmed query of the request of a SearchServed step
ServedQuery == TrimmedQuery[last'.query]

\* the cache maps query to the hostname of a service disabled in the index
CachedDisabled(query) ==
  /\ query \in DOMAIN redis.cache
  /\ redis.cache[query] \in DOMAIN idx.services
  /\ idx.services[redis.cache[query]].Disabled

\* C15, as stated: a request for a query whose cached hostname is a
\* service disabled in the index, and whose store calls all succeed, leaves
\* the cache without the mapping from the query to that hostname.
C15CacheInvalidated ==
  [][(SearchServed /\ ~last'.failed /\ Realm[ServedQuery] = "service"
        /\ CachedDisabled(ServedQuery)) =>
       ~(/\ ServedQuery \in DOMAIN redis'.cache
         /\ redis'.cache[ServedQuery] = redis.cache[ServedQuery])]_vars

\* the ids of the candidates that max_candidates = n lets the loop examine
TopRanked(ranked, n) ==
  {ranked[i] : i \in {j \in 1..Len(ranked) : n = 0 \/ j <= n}}

\* C18: a request that ranked with max_candidates = n > 0 probes and
\* redirects to none but the n top-ranked candidates (the probe of the
\* cached hostname apart), and with max_candidates = 0 it answers home only
\* after it has probed every ranked candidate that the allow-list allows.
C18MaxCandidates ==
  [][(SearchServed /\ Realm[ServedQuery] = "service" /\ last'.ranked # << >>) =>
       /\ \A i \in 1..Len(last'.responses) :
             last'.responses[i].location \in
               {HomepageURL}
                 \cup {ServiceURL(h) : h \in TopRanked(last'.ranked, cfg.MaxCandidates)}
       /\ \A j \in 1..Len(last'.probed) :
             \/ last'.probed[j] \in TopRanked(last'.ranked, cfg.MaxCandidates)
             \/ /\ j = 1
                /\ ServedQuery \in DOMAIN redis.cache
                /\ redis.cache[ServedQuery] = last'.probed[j]
       /\ (/\ cfg.MaxCandidates = 0
           /\ ~cfg.SkipTLSValidation
           /\ last'.responses = <<[status |-> StatusFound, location |-> HomepageURL]>>) =>
             \A i \in 1..Len(last'.ranked) :
                AllowedRedirect[last'.ranked[i]] =>
                  \E j \in 1..Len(last'.probed) : last'.probed[j] = last'.ranked[i]]_vars

\* with max_candidates = 1 the top candidate failed its probe and the
\* request went home, though the second candidate is on the allow-list
C18Witness ==
  /\ Searched
  /\ cfg.MaxCandidates = 1
  /\ Len(last.ranked) >= 2
  /\ last.probed = <<last.ranked[1]>>
  /\ AllowedRedirect[last.ranked[2]]
  /\ last.responses = <<[status |-> StatusFound, location |-> HomepageURL]>>

\* ------------------------------------------------------------------------
\* Properties of the handler as a function (checked under SpecTwice)
\* ------------------------------------------------------------------------
\* C13: for every index, query and probe outcome, the request answered
\* while every store call fails gets the Location it gets with a working
\* store and an empty cache.
C13FailuresKeepLocation ==
  last.op = "failing" => last.responses = last.again

\* the store holds a cache key for the query, its read fails, and both
\* requests are answered by the ranking with the best match
C13Witness ==
  /\ last.op = "failing"
  /\ last.query = "Jel "
  /\ "Jel" \in DOMAIN redis.cache
  /\ redis.cache["Jel"] = "jel.bad.io"
  /\ last.responses = <<[status |-> StatusFound, location |-> ServiceURL("jel.ex.io")]>>

\* C19, as stated: for the same index, cache, probe outcomes and query, two
\* requests get the same Location.
C19Reproducible ==
  last.op = "orders" => last.responses = last.again

\* ------------------------------------------------------------------------
\* Properties of the reloaders and of the collector (checked under
\* SpecCatalog)
\* ------------------------------------------------------------------------
\* The steps that run HomepageReloader.Reload, BookmarkReloader.Reload and
\* GarbageCollector.Collect: every operation writes last, and the only step
\* that leaves last as it is moves the clock.
ServicesReloaded == last'.op = "reload" /\ now' = now

BookmarksReloaded == last'.op = "bmreload" /\ now' = now

Collected == last'.op = "collect" /\ now' = now

\* e is soft-deleted: disabled, with updated_at set
SoftDeleted(e) == e.Disabled /\ e.UpdatedAt # 0

\* e is due for collection at time t
Expired(e, t) == e.Disabled /\ t - e.UpdatedAt >= DefaultGCThreshold

\* C6: after a successful Reload every entry that was in the index before
\* it and is missing from the newly loaded list is still in the index,
\* disabled and with updated_at set.
C6SoftDelete ==
  [][/\ (ServicesReloaded /\ last'.ok) =>
          \A id \in (DOMAIN idx.services) \ last'.loaded :
             id \in DOMAIN idx'.services /\ SoftDeleted(idx'.services[id])
     /\ (BookmarksReloaded /\ last'.ok) =>
          \A id \in (DOMAIN idx.bookmarks) \ last'.loaded :
             id \in DOMAIN idx'.bookmarks /\ SoftDeleted(idx'.bookmarks[id])]_vars

\* a successful reload has just soft-deleted a service that the new list lacks
C6Witness ==
  /\ last.op = "reload" /\ last.ok
  /\ \E id \in (DOMAIN idx.services) \ last.loaded :
        idx.services[id].Disabled /\ idx.services[id].UpdatedAt = now

\* C8: after a Collect run the index holds no entry that is disabled with
\* now - updated_at >= gc_threshold, and every entry that was enabled or
\* disabled for less than gc_threshold is still there, unchanged.
C8Collect ==
  [][Collected =>
       /\ \A id \in DOMAIN idx'.services : ~Expired(idx'.services[id], now')
       /\ \A id \in DOMAIN idx'.bookmarks : ~Expired(idx'.bookmarks[id], now')
       /\ \A id \in DOMAIN idx.services :
             ~Expired(idx.services[id], now) =>
                id \in DOMAIN idx'.services /\ idx'.services[id] = idx.services[id]
       /\ \A id \in DOMAIN idx.bookmarks :
             ~Expired(idx.bookmarks[id], now) =>
                id \in DOMAIN idx'.bookmarks /\ idx'.bookmarks[id] = idx.bookmarks[id]]_vars

\* a Collect run has just removed an entry and kept a soft-deleted one
C8Witness ==
  /\ last.op = "collect"
  /\ last.deleted # {}
  /\ \E id \in DOMAIN idx.services : idx.services[id].Disabled
  /\ \E id \in DOMAIN idx.services : ~idx.services[id].Disabled

\* C9: a Reload whose loader or mapper fails leaves the index and the store
\* exactly as they were.
C9FailedReload ==
  [][((ServicesReloaded \/ BookmarksReloaded) /\ ~last'.ok) =>
       (idx' = idx /\ redis' = redis)]_vars

\* a reload has just failed on an index that holds services
C9Witness ==
  /\ last.op = "reload" /\ ~last.ok
  /\ phase = "running"
  /\ \E id \in DOMAIN idx.services : ~idx.services[id].Disabled

\* the two maps have the same ids and, timestamps apart, the same entries
SameButTimestamps(before, after) ==
  /\ DOMAIN before = DOMAIN after
  /\ \A id \in DOMAIN before :
        [before[id] EXCEPT !.UpdatedAt = 0] = [after[id] EXCEPT !.UpdatedAt = 0]

\* C20: the second of two successive successful Reloads over the same
\* catalog leaves the index with the ids and, timestamps apart, the field
\* values that the first left.
C20ReloadIdempotent ==
  [][/\ (ServicesReloaded /\ last'.repeated) =>
          SameButTimestamps(idx.services, idx'.services)
     /\ (BookmarksReloaded /\ last'.repeated) =>
          SameButTimestamps(idx.bookmarks, idx'.bookmarks)]_vars

\* a day after a Reload that soft-deleted a service, the Reload of the same
\* catalog has run again
C20Witness ==
  /\ last.op = "reload" /\ last.repeated
  /\ now > StartOfTime
  /\ \E id \in DOMAIN idx.services :
        idx.services[id].Disabled /\ idx.services[id].UpdatedAt = now
  /\ \E id \in DOMAIN idx.services : ~idx.services[id].Disabled

\* ------------------------------------------------------------------------
\* Property of the periodic loops (checked under SpecTimers)
\* ------------------------------------------------------------------------
\* C21: a Collect run directly after another one, at the same time and with
\* no operation in between, deletes nothing and leaves the index unchanged.
C21CollectIdempotent ==
  [][(Collected /\ last'.repeated) => (last'.deleted = {} /\ idx' = idx)]_vars

\* a Collect run has just followed one that removed an entry, on an index
\* that still holds a soft-deleted service and an enabled one
C21Witness ==
  /\ last.op = "collect" /\ last.repeated
  /\ last.prior # {}
  /\ \E id \in DOMAIN idx.services : idx.services[id].Disabled
  /\ \E id \in DOMAIN idx.services : ~idx.services[id].Disabled

\* C23: a bootstrap sync that fails leaves the index unchanged and startup
\* goes on to the first Reload; when that Reload succeeds the index holds
\* exactly the entries mapped from the catalog file, all enabled.
C23SyncFailureIsWarning ==
  [][/\ (last'.op = "sync" /\ ~last'.ok) => (idx' = idx /\ phase' = "synced")
     /\ (ServicesReloaded /\ last'.ok /\ last'.sync = "failed") =>
           /\ DOMAIN idx'.services = last'.loaded
           /\ \A id \in last'.loaded : ~idx'.services[id].Disabled]_vars

\* the first Reload has succeeded after a sync that failed although the
\* store held services of an earlier run
C23Witness ==
  /\ last.op = "reload" /\ last.ok /\ last.sync = "failed"
  /\ redis.svc # EmptyMap
  /\ last.loaded # {}
  /\ DOMAIN redis.svc \ last.loaded # {}

\* C24: whenever App.Run has returned the Redis client is closed, and when
\* the client is closed no loop is in an iteration or still to return.
C24ClosedLast ==
  /\ shut.run = "returned" => shut.closed
  /\ shut.closed => \A l \in Loops : shut.loop[l] = "returned"

\* the places of id in the ranking
PlacesOf(ranked, id) == {i \in 1..Len(ranked) : ranked[i] = id}

\* C27: of two enabled services with the same lexical score for a query, the
\* ranking puts the one with the strictly greater counter first; over the
\* counters of the index the usage score is never negative and never
\* smaller for the greater counter.
C27UsageReranks ==
  last.op = "rank" =>
    \A a, b \in DOMAIN idx.services :
       /\ UsageScore(idx.services[a].Counter) >= 0
       /\ idx.services[a].Counter >= idx.services[b].Counter =>
             UsageScore(idx.services[a].Counter) >= UsageScore(idx.services[b].Counter)
       /\ (/\ ~idx.services[a].Disabled /\ ~idx.services[b].Disabled
           /\ LexicalScore[last.query][a] = LexicalScore[last.query][b]
           /\ LexicalScore[last.query][a] # 0
           /\ idx.services[a].Counter > idx.services[b].Counter) =>
             /\ PlacesOf(last.ranked, a) # {} /\ PlacesOf(last.ranked, b) # {}
             /\ \A i \in PlacesOf(last.ranked, a), j \in PlacesOf(last.ranked, b) : i < j

\* two services with the same lexical score were ranked, the second used
\* once and the first more often, beside a third one with a lower score
C27Witness ==
  /\ last.op = "rank"
  /\ Len(last.ranked) = 3
  /\ \E a, b \in DOMAIN idx.services :
        /\ last.ranked[1] = a /\ last.ranked[2] = b
        /\ LexicalScore[last.query][a] = LexicalScore[last.query][b]
        /\ idx.services[a].Counter > idx.services[b].Counter
        /\ idx.services[b].Counter = 1

\* C29: a request that calls IncrementCounter(id) only with an id that is
\* not in the index leaves the index as it was: no entry is created and
\* the counter of every service is unchanged.
C29UnknownIdUnchanged ==
  [][(/\ last'.op = "search"
      /\ last'.counted # << >>
      /\ \A i \in 1..Len(last'.counted) : last'.counted[i] \notin DOMAIN idx.services)
     => idx'.services = idx.services]_vars

\* a request was served from the cache with a hostname that the index,
\* which holds other services, does not have
C29Witness ==
  /\ last.op = "search"
  /\ last.counted # << >>
  /\ last.counted[1] \notin DOMAIN idx.services
  /\ idx.services # EmptyMap
  /\ last.incIdx = << >>

\* a request is served for a query whose cache key holds a hostname, and
\* the probe of that hostname fails: the handler calls InvalidateCache
StaleHit ==
  /\ SearchServed
  /\ ServedQuery \in DOMAIN redis.cache
  /\ last'.events # << >>
  /\ last'.events[1] = "InvalidateCache"

\* the candidate id passes the allow-list and the probe of the ranking
\* loop, which skip_tls_validation leaves out
Eligible(id) == AllowedRedirect[id] /\ (cfg.SkipTLSValidation \/ id \in last'.alive)

\* the cache key of the served query is gone, or holds the hostname that
\* the response redirects to
EntryReplaced ==
  \/ ServedQuery \notin DOMAIN redis'.cache
  \/ ServiceURL(redis'.cache[ServedQuery]) = last'.responses[1].location

\* C30, as stated: when the cache holds h for q and the probe of h fails,
\* the request deletes the cache entry of q and continues with the
\* ranking; it answers home only if no ranked candidate is allowed and live.
C30HomeOnlyIfNone ==
  [][StaleHit =>
       /\ EntryReplaced
       /\ last'.responses[1].location = HomepageURL =>
             \A i \in 1..Len(last'.ranked) : ~Eligible(last'.ranked[i])]_vars

\* C30, amended: when the cache holds h for q and the probe of h fails, the
\* request calls InvalidateCache(q), which removes the entry unless the
\* store call fails, and continues with the ranking over the index: it
\* ranks whenever a service of the index matches q, and it answers home
\* exactly when none of the candidates kept by max_candidates is allowed
\* and live; when no store call fails the key of q is gone or holds the
\* hostname of the redirect.
C30FallsThrough ==
  [][StaleHit =>
       /\ Len(last'.responses) = 1
       /\ (last'.ranked = << >>) =
             (\A id \in DOMAIN idx.services : ~IsServiceCandidate(ServedQuery, idx.services[id]))
       /\ (last'.responses[1].location = HomepageURL) =
             (\A id \in TopRanked(last'.ranked, cfg.MaxCandidates) : ~Eligible(id))
       /\ ~last'.failed => EntryReplaced]_vars

\* the probe of the cached hostname failed and the request was answered
\* by the ranking with another hostname, which the cache now holds
C30Witness ==
  /\ last.op = "search"
  /\ last.events = <<"InvalidateCache", "IncrementUsage", "IncrementCounter",
                     "CacheResolution", "Redirect">>
  /\ Len(last.probed) > 1
  /\ last.probed[Len(last.probed)] # last.probed[1]
  /\ last.responses = <<[status |-> StatusFound,
                         location |-> ServiceURL(last.probed[Len(last.probed)])]>>
  /\ TrimmedQuery[last.query] \in DOMAIN redis.cache
  /\ redis.cache[TrimmedQuery[last.query]] = last.probed[Len(last.probed)]

\* a request of the service realm is served and not answered from the
\* cache: the cache path counts the usage and writes no cache key
AnsweredByRanking ==
  /\ SearchServed
  /\ Realm[ServedQuery] = "service"
  /\ \/ last'.counted = << >>
     \/ \E i \in 1..Len(last'.events) : last'.events[i] = "CacheResolution"

\* the total score of the service id for the served query, before the request
RankTotal(id) ==
  LexicalScore[ServedQuery][id] + UsageScore(idx.services[id].Counter)

\* the places of the ranked list, within the cap, whose candidate is
\* allowed and passes the probe
EligiblePlaces ==
  {i \in 1..Len(last'.ranked) :
     /\ cfg.MaxCandidates = 0 \/ i <= cfg.MaxCandidates
     /\ Eligible(last'.ranked[i])}

NewValue(k) ==
  /\ k \in DOMAIN redis'.cache
  /\ k \notin DOMAIN redis.cache \/ redis'.cache[k] # redis.cache[k]

\* the request called CacheResolution and the key of its query is set
Written ==
  /\ SearchServed
  /\ \E i \in 1..Len(last'.events) : last'.events[i] = "CacheResolution"
  /\ ServedQuery \in DOMAIN redis'.cache

ReloadOp == [c \in Triggers |-> IF c = "services" THEN "reload" ELSE "bmreload"]

\* C33: a signal that POST /reload has put on the channel of a reloader
\* is taken by the loop, which then starts a Reload, also when the signal
\* was accepted while a Reload was running; that Reload, which reads the
\* catalog after the signal was accepted, runs to its end.
C33TriggerFollowed ==
  \A c \in Triggers :
    (trig.chan[c] > 0) ~>
      (/\ trig.chan[c] = 0
       /\ trig.loop[c] = "reload"
       /\ <>(trig.loop[c] = "select" /\ last.op = ReloadOp[c]))

\* a signal was accepted on the services channel while the Reload of an
\* earlier signal was running
C33Witness ==
  /\ trig.posts = 2
  /\ trig.chan["services"] = 1
  /\ trig.loop["services"] = "reload"
  /\ \E h \in Handlers : "services" \in trig.triggered[h] /\ trig.status[h] = StatusAccepted

\* C34, as stated: no step removes from the index an entry that is
\* enabled, also when a Reload runs between the snapshot of the collector
\* and its DeleteService.
C34NeverDeletesEnabled ==
  [][\A id \in DOMAIN idx.services :
       id \notin DOMAIN idx'.services => idx.services[id].Disabled]_vars

\* C35, as stated: a Reload that finds an entry already soft-deleted and
\* still absent from the catalog leaves its updated_at as it was.
C35SoftDeleteTimeKept ==
  [][(last'.op = "reload" /\ last'.ok) =>
       \A id \in (DOMAIN idx.services) \cap (DOMAIN idx'.services) :
         (idx.services[id].Disabled /\ idx'.services[id].Disabled /\ id \notin last'.loaded)
           => idx'.services[id].UpdatedAt = idx.services[id].UpdatedAt]_vars

\* the access a is to the service that the index holds under its id
InIndex(a) == a.id \in DOMAIN idx.services /\ a.gen = mem.gen[a.id]

\* C36, as stated: a field of a service that is in the index is written
\* only by a goroutine that holds the write lock of the index, and no
\* request reads a service while the Reload writes it.
C36WritesUnderLock ==
  \A a \in mem.access :
    (a.kind = "write" /\ InIndex(a)) =>
      /\ mem.holder = a.who
      /\ \A b \in mem.access : (b.who # a.who /\ b.id = a.id) => b.gen # a.gen

\* C37, as stated: once the k requests that redirect to the service have
\* all finished, with no store call failing, its counter in the store has
\* grown by k, as its counter in the index has.
C37StoreCounterExact ==
  (\A r \in Requesters : upd.pc[r] \in {"idle", "done"}) =>
    /\ redis.svc[Target].Counter = upd.redirects
    /\ redis.svc[Target].Counter = idx.services[Target].Counter

\* ------------------------------------------------------------------------
\* Score as a function of the query string and of the hostname: each call
\* parses one query and scores one service; last.scored keeps the query,
\* the hostname, the score, and whether RankCandidates lists the service.
\* ------------------------------------------------------------------------
\* query strings, most of them with a dot
SubdomainQueries ==
  {<<"j","e","l",".","e","x">>, <<"z","z","z",".","e","x">>,
   <<"j","e","l",".","z","z","z">>, <<"j","e","l",".">>, <<".","e","x">>,
   <<"j","e","l",".","i","o">>, <<"J","e","l"," ",".","e","x">>,
   <<"j","e","l",".","b">>, <<"j","e","l",".","e","x"," ","i","o">>,
   <<".">>, <<"j","e","l","l","y",".","x">>, <<"e","x",".","j","e","l">>,
   <<"j","e","l">>, <<"z","z","z">>, <<"j","e","l"," ","e","x">>}

\* hostnames of one, two and three labels
SubdomainHosts == {"jel", "ex.io", "chat.ai", "jel.ex.io", "jelly.ex.io", "jel.bad.io",
                   "docs.ex.io"}

\* RankCandidates: lexicalScore := Score(query, service), and the service
\* is skipped when it is disabled or the score is 0
ScoredService(inputCs, service) ==
  LET lexicalScore == Score(ParseQuery(inputCs), service)
  IN [query |-> inputCs, hostname |-> service.Hostname, disabled |-> service.Disabled,
      score |-> lexicalScore, candidate |-> ~service.Disabled /\ lexicalScore # 0]

ScoresServices ==
  /\ Scoring
  /\ \E q \in SubdomainQueries, h \in SubdomainHosts, d \in BOOLEAN :
       last' = [Done("Score", TRUE) EXCEPT
                  !.scored = <<ScoredService(q, [MappedService("jel.ex.io") EXCEPT
                                                  !.Hostname = h, !.Disabled = d])>>]

SpecSubdomain == InitRanking /\ [][ScoresServices]_vars

\* the labels of the hostname after the first
SubdomainLabels(h) == Tail(HostnameFragments(Chars[h]))

\* some subdomain fragment of the query matches some label of the hostname
\* after the first
SubdomainMatched(q, h) ==
  \E i \in 1..Len(ParseQuery(q).SubdomainFragments), k \in 1..Len(SubdomainLabels(h)) :
     MatchLevel(normalizeFragment(ParseQuery(q).SubdomainFragments[i]),
                normalizeFragment(SubdomainLabels(h)[k])) # "none"

\* some top-level fragment of the query matches the first label of the
\* hostname
TopLevelMatched(q, h) ==
  \E i \in 1..Len(ParseQuery(q).TopLevelFragments) :
     MatchLevel(normalizeFragment(ParseQuery(q).TopLevelFragments[i]),
                normalizeFragment(HostnameFragments(Chars[h])[1])) # "none"

\* C38: for a query with a dot, a service whose hostname has fewer than
\* two labels, or none of whose labels after the first is matched by a
\* subdomain fragment of the query, has score 0 and is not a candidate,
\* whether or not the top-level fragments match its first label.
C38StrictSubdomain ==
  \A i \in 1..Len(last.scored) :
     LET r == last.scored[i]
     IN (/\ last.op = "Score"
         /\ Contains(r.query, <<".">>)
         /\ \/ Len(HostnameFragments(Chars[r.hostname])) < 2
            \/ ~SubdomainMatched(r.query, r.hostname))
        => r.score = 0 /\ ~r.candidate

\* the top-level fragment jel is the first label of jel.bad.io, and the
\* subdomain fragment ex matches neither bad nor io
C38Witness ==
  /\ last.op = "Score"
  /\ last.scored[1].query = <<"j","e","l",".","e","x">>
  /\ last.scored[1].hostname = "jel.bad.io"
  /\ TopLevelMatched(last.scored[1].query, last.scored[1].hostname)
  /\ ~SubdomainMatched(last.scored[1].query, last.scored[1].hostname)
  /\ last.scored[1].score = 0

\* C39, as stated: for a query with a dot, a service whose first label is
\* matched by no top-level fragment of the query has score 0, also when a
\* subdomain fragment matches one of its other labels.
C39TopLevelRequired ==
  \A i \in 1..Len(last.scored) :
     LET r == last.scored[i]
     IN (/\ last.op = "Score"
         /\ Contains(r.query, <<".">>)
         /\ ~TopLevelMatched(r.query, r.hostname))
        => r.score = 0

\* ------------------------------------------------------------------------
\* The internal realm: one request with a query that starts with "/", for
\* every index, cache and configuration the request can find
\* ------------------------------------------------------------------------
InitInternal ==
  /\ phase = "running"
  /\ cfg \in Configs
  /\ now = StartOfTime
  /\ advances = 0
  /\ requests = 0
  /\ idx \in {UpdateServices(NewMemoryIndex, MapServices(c).services) : c \in SUBSET Hosts}
  /\ redis \in {NewRedis(c) : c \in InitialCaches}
  /\ last = NoOp
  /\ ticked = {}
  /\ mem = NewCalls
  /\ trig = NewTriggers
  /\ shut = NewRun
  /\ gc = NewPass
  /\ upd = NewUpdates

\* GET /search?q=<q> with a value of q of the internal realm
InternalReq ==
  /\ phase = "running"
  /\ requests < MaxRequests
  /\ requests' = requests + 1
  /\ \E q \in InternalQueries, reqHost \in RequestHosts :
       \E path \in RequestPaths(TrimmedQuery[q]) :
          \E f \in RequestFaults(path), o \in ServiceOrders(path),
             bo \in BookmarkOrders(TrimmedQuery[q]), al \in AliveSets(TrimmedQuery[q], path) :
             \E in \in {Inputs(path, f, o, bo, al)} :
                \E ctx \in {Search(NewContext(idx, redis), q, reqHost, in, cfg)} :
                   Respond(q, ctx, in)
  /\ UNCHANGED <<phase, cfg, now, advances, ticked, mem, trig, shut, gc, upd>>

SpecInternal == InitInternal /\ [][InternalReq]_vars

\* the admin paths that begin with the characters of the trimmed query q,
\* read without case
PathsWithPrefix(q) ==
  LET typed == ToLower(TrimSpace(Chars[q]))
  IN {e \in {"/infra", "/healthz", "/readyz"} :
        /\ Len(typed) <= Len(Chars[e])
        /\ \A i \in 1..Len(typed) : Chars[e][i] = typed[i]}

\* C40: a request whose query starts with "/" gets one response, a 302:
\* to the path on the request's own host when exactly one of /infra,
\* /healthz and /readyz has the lowercased query as a prefix, and to the
\* home URL when none or several have.
C40InternalRedirect ==
  (last.op = "search" /\ HasPrefix(TrimSpace(Chars[last.query]), <<"/">>)) =>
     /\ Len(last.responses) = 1
     /\ last.responses[1].status = StatusFound
     /\ Cardinality(PathsWithPrefix(last.query)) = 1
          <=> last.responses[1].location \in
                {[host |-> h, path |-> e] : h \in RequestHosts, e \in PathsWithPrefix(last.query)}
     /\ Cardinality(PathsWithPrefix(last.query)) # 1
          => last.responses[1].location = HomepageURL

\* the query /Inf, sent to jump.ex.io, was redirected to /infra on that host
C40Witness ==
  /\ last.op = "search"
  /\ last.query = "/Inf"
  /\ PathsWithPrefix(last.query) = {"/infra"}
  /\ last.responses = <<[status |-> StatusFound,
                         location |-> [host |-> "jump.ex.io", path |-> "/infra"]]>>

\* the match levels, from the weakest
LevelRank == [l \in {"none", "fuzzy", "substring", "prefix", "exact"} |->
                CASE l = "none" -> 0 [] l = "fuzzy" -> 1 [] l = "substring" -> 2
                  [] l = "prefix" -> 3 [] l = "exact" -> 4]

\* C28: of two pairs scored by scoreFragment, at any positions, or by
\* ScoreBookmark, the one that matches at the higher level (exact, prefix,
\* substring, fuzzy, in this order) has the strictly greater score; a
\* fuzzy match scores more than 0 and a pair that does not match scores 0.
C28LevelsOrdered ==
  /\ Len(last.scored) = 2 =>
        \A i, j \in 1..2 :
          LevelRank[last.scored[i].level] > LevelRank[last.scored[j].level] =>
            last.scored[i].score > last.scored[j].score
  /\ Len(last.scored) > 0 =>
        (last.scored[1].level = "none") = (last.scored[1].score = 0)

\* a prefix match at the first position was scored beside an exact match
\* at the last position
C28Witness ==
  /\ last.op = "scoreFragment"
  /\ Len(last.scored) = 2
  /\ last.scored[1].level = "exact"
  /\ last.scored[1].score = ScoreExactMatch + calculatePositionBonus(MaxPosition)
  /\ last.scored[2].level = "prefix"
  /\ last.scored[2].score = ScorePrefixMatch + calculatePositionBonus(0)

\* the ids of the bookmarks of the map m that have the URL url
BookmarksOf(m, url) == {id \in DOMAIN m : m[id].URL = url}

SuccessWrites == {"IncrementUsage", "IncrementCounter", "CacheResolution"}

\* C25: in a request that redirects to a service, the 302 is written before
\* the counter increment and the cache write are issued.
C25WritesAfterResponse ==
  \A i, j \in DOMAIN last.events :
     (last.events[i] = "Redirect" /\ last.events[j] \in SuccessWrites) => i < j

\* a Reload of the services loop has just failed
FailedInLoop ==
  phase = "running" /\ "reload" \in ticked /\ last.op = "reload" /\ ~last.ok

\* C22: a Reload that fails in the loop of Start leaves the loop and the
\* process running, and the loop attempts a Reload again at the next tick;
\* only the first Reload, which Start runs before the loop, ends the
\* process when it fails.
C22LoopSurvivesFailure ==
  /\ [][((ServicesReloaded \/ BookmarksReloaded) /\ ~last'.ok /\ phase = "running")
          => phase' = "running"]_vars
  /\ FailedInLoop ~> ("reload" \notin ticked /\ <>("reload" \in ticked /\ phase = "running"))

\* the loop has just failed to reload an index that holds services
C22Witness ==
  /\ FailedInLoop
  /\ \E id \in DOMAIN idx.services : ~idx.services[id].Disabled

\* C22, as stated: a failed Reload, at start or later, never ends the process.
C22NeverEnds ==
  (last.op \in {"reload", "bmreload"} /\ ~last.ok) => phase # "exited"

\* C7, as stated: a soft-deleted service that does not reappear in the
\* catalog is eventually removed from the index by the collector, the
\* reload loop and the collector loop ticking every day.
C7EventuallyCollected ==
  \A id \in Hosts :
     (id \in DOMAIN idx.services /\ idx.services[id].Disabled)
       ~> (id \notin DOMAIN idx.services \/ ~idx.services[id].Disabled)

\* ------------------------------------------------------------------------
\* Properties of the memory index under concurrent calls (checked under
\* SpecLock)
\* ------------------------------------------------------------------------
\* C10: a GetAllServices that runs concurrently with UpdateServices(L)
\* returns exactly the ids of the map before that call or exactly the ids
\* of L, never a mixture or a partially filled map.
C10UpdateAtomic ==
  [][\A r \in Readers :
       (mem.pc[r] = "range" /\ mem'.pc[r] = "idle") =>
         mem.copied[r] \in {mem.prev, mem.next}]_vars

\* a reader waits for the read lock while UpdateServices has stored a part
\* of a list that replaces a map of other ids
C10Witness ==
  /\ mem.pc[Updater] = "range"
  /\ mem.list # << >>
  /\ DOMAIN mem.services # mem.prev
  /\ mem.prev # mem.next
  /\ \E r \in Readers : mem.pc[r] = "rlock"

\* C11: the calls of IncrementCounter(id) that ran concurrently with each
\* other and with readers and found id in the index have increased its
\* counter by exactly their number: no increment is lost.
C11NoLostIncrement ==
  \A id \in DOMAIN mem.services : mem.services[id] = mem.applied[id]

\* two calls for the same id have incremented while a third waits for the
\* lock that the second still holds and a reader is in its call
C11Witness ==
  /\ "jel.ex.io" \in DOMAIN mem.services
  /\ mem.services["jel.ex.io"] = 2
  /\ mem.pc["i1"] = "unlock"
  /\ mem.pc["i2"] = "lock"
  /\ \E r \in Readers : mem.pc[r] = "rlock"

C17NonBlockingCoalescing ==
  /\ \A c \in Triggers : trig.chan[c] <= 1
  /\ \A h \in Handlers :
        /\ (phase = "running" /\ trig.pc[h] = "services") => ENABLED TriggerServices(h)
        /\ (phase = "running" /\ trig.pc[h] = "bookmarks") => ENABLED TriggerBookmarks(h)

\* a request has gone past its send on the services channel, which held a
\* pending signal and still holds just that one
C17Witness ==
  \E h \in Handlers :
     /\ trig.pc[h] = "bookmarks"
     /\ "services" \in trig.dropped[h]
     /\ trig.chan["services"] = 1

====
